---------------------------- MODULE Spec2Model ----------------------------
(***************************************************************************)
(* A model of the Aave loan dashboard (src/src/App.tsx): the unit          *)
(* converters, the position builder, the weighted aggregator, the loan     *)
(* metrics calculator, the portfolio aggregator and the React component's  *)
(* refresh state machine.                                                  *)
(*                                                                         *)
(* JavaScript numbers are modelled as extended rationals: a record         *)
(* [n, d] with d > 0 is the finite value n/d in lowest terms, and d = 0    *)
(* marks the three IEEE-754 specials: n = 1 is +Infinity, n = -1 is        *)
(* -Infinity and n = 0 is NaN.  Finite arithmetic is exact: rounding,      *)
(* overflow to Infinity and the sign of zero are not modelled.             *)
(***************************************************************************)
EXTENDS Integers, Sequences, FiniteSets, TLC

----------------------------------------------------------------------------
(* JavaScript number arithmetic *)

Abs(i) == IF i < 0 THEN -i ELSE i

Sign(i) == IF i < 0 THEN -1 ELSE IF i > 0 THEN 1 ELSE 0

RECURSIVE GCD(_, _)
GCD(a, b) == IF b = 0 THEN a ELSE GCD(b, a % b)

\* the finite number a/b (b # 0), in lowest terms with a positive denominator
Q(a, b) ==
    LET g == GCD(Abs(a), Abs(b))
    IN  [n |-> (Sign(b) * a) \div g, d |-> Abs(b) \div g]

I(a) == [n |-> a, d |-> 1]

Zero == I(0)

Infinity == [n |-> 1, d |-> 0]

NegInfinity == [n |-> -1, d |-> 0]

NaN == [n |-> 0, d |-> 0]

\* Number.isFinite
IsFinite(x) == x.d > 0

IsNaN(x) == x = NaN

\* x + y
Add(x, y) ==
    IF IsNaN(x) \/ IsNaN(y) THEN NaN
    ELSE IF IsFinite(x) /\ IsFinite(y) THEN Q(x.n * y.d + y.n * x.d, x.d * y.d)
    ELSE IF IsFinite(x) THEN y
    ELSE IF IsFinite(y) THEN x
    ELSE IF x = y THEN x ELSE NaN

Neg(x) == [n |-> -x.n, d |-> x.d]

\* x - y
Sub(x, y) == Add(x, Neg(y))

\* x * y
Mul(x, y) ==
    IF IsNaN(x) \/ IsNaN(y) THEN NaN
    ELSE IF IsFinite(x) /\ IsFinite(y) THEN Q(x.n * y.n, x.d * y.d)
    ELSE IF x.n = 0 \/ y.n = 0 THEN NaN
    ELSE [n |-> Sign(x.n) * Sign(y.n), d |-> 0]

\* x / y
Div(x, y) ==
    IF IsNaN(x) \/ IsNaN(y) THEN NaN
    ELSE IF IsFinite(x) /\ IsFinite(y)
         THEN IF y.n # 0 THEN Q(x.n * y.d, x.d * y.n)
              ELSE [n |-> Sign(x.n), d |-> 0]
    ELSE IF IsFinite(x) THEN Zero
    ELSE IF IsFinite(y) THEN [n |-> IF y.n < 0 THEN -x.n ELSE x.n, d |-> 0]
    ELSE NaN

\* x < y: every comparison with NaN is false
Lt(x, y) ==
    IF IsNaN(x) \/ IsNaN(y) THEN FALSE
    ELSE IF IsFinite(x) /\ IsFinite(y) THEN x.n * y.d < y.n * x.d
    ELSE IF IsFinite(x) THEN y = Infinity
    ELSE IF IsFinite(y) THEN x = NegInfinity
    ELSE x = NegInfinity /\ y = Infinity

\* x > y
Gt(x, y) == Lt(y, x)

\* x <= y
Le(x, y) == Lt(x, y) \/ (~IsNaN(x) /\ x = y)

\* x >= y
Ge(x, y) == Le(y, x)

\* Math.max(x, y)
MathMax(x, y) == IF IsNaN(x) \/ IsNaN(y) THEN NaN ELSE IF Lt(x, y) THEN y ELSE x

\* Math.min(x, y)
MathMin(x, y) == IF IsNaN(x) \/ IsNaN(y) THEN NaN ELSE IF Lt(y, x) THEN y ELSE x

----------------------------------------------------------------------------
(* Strings of the upstream data.  Number(), toLowerCase() and toUpperCase()  *)
(* are given by their values on the strings the model draws its records     *)
(* from.  The ray-scaled rate strings hold 26-digit integers, beyond TLC's   *)
(* 32-bit integers: Number() of such a string and 10 ** 27 are both written  *)
(* in units of 10^24, which the only consumer, the quotient in fromRay,      *)
(* cancels.                                                                  *)

\* Number(value) for a string value
NumberOf(value) ==
    CASE value = "" -> Zero
      [] value = "0" -> Zero
      [] value = "1000000" -> I(1000000)
      [] value = "2000000" -> I(2000000)
      [] value = "3000000" -> I(3000000)
      [] value = "-1000000" -> I(-1000000)
      [] value = "5000" -> I(5000)
      [] value = "8000" -> I(8000)
      [] value = "8250" -> I(8250)
      [] value = "9000" -> I(9000)
      [] value = "12000" -> I(12000)
      [] value = "-100" -> I(-100)
      [] value = "Infinity" -> Infinity
      [] value = "20000000000000000000000000" -> I(20)
      [] value = "50000000000000000000000000" -> I(50)
      [] value = "-50000000000000000000000000" -> I(-50)
      [] OTHER -> NaN

\* value.replaceAll(',', '')
ReplaceCommas(value) ==
    CASE value = "8,250" -> "8250"
      [] value = "1,000,000" -> "1000000"
      [] OTHER -> value

\* s.toLowerCase()
ToLowerCase(s) ==
    CASE s = "0xAA" -> "0xaa"
      [] s = "0xBB" -> "0xbb"
      [] s = "WETH" -> "weth"
      [] s = "USDC" -> "usdc"
      [] s = "XYZ" -> "xyz"
      [] OTHER -> s

\* s.toUpperCase()
ToUpperCase(s) ==
    CASE s = "weth" -> "WETH"
      [] s = "usdc" -> "USDC"
      [] s = "xyz" -> "XYZ"
      [] s = "Weth" -> "WETH"
      [] OTHER -> s

RECURSIVE Pow10(_)
\* 10 ** k for a small non-negative integer k
Pow10(k) == IF k = 0 THEN 1 ELSE 10 * Pow10(k - 1)

\* 10 ** 27, in units of 10^24
TenPow27 == I(1000)

----------------------------------------------------------------------------
(* Unit converters *)

n(value) ==
    LET parsed == NumberOf(ReplaceCommas(value))
    IN  IF IsFinite(parsed) THEN parsed ELSE Zero

clamp(value, min, max) == MathMin(max, MathMax(min, value))

parseBalance(raw, decimals) ==
    LET normalized == Div(NumberOf(raw), I(Pow10(decimals)))
    IN  IF IsFinite(normalized) THEN normalized ELSE Zero

\* fromBps without the clamp
fromBps_unclamped(raw) == Div(n(raw), I(10000))

fromBps(raw) == clamp(Div(n(raw), I(10000)), Zero, Q(99, 100))

fromRay(raw) == MathMax(Zero, Div(n(raw), TenPow27))

----------------------------------------------------------------------------
(* Sequence helpers standing for Array.prototype.map / filter / reduce *)

RECURSIVE SumSeq(_)
\* items.reduce((sum, x) => sum + x, 0) over a sequence of numbers
SumSeq(xs) == IF xs = <<>> THEN Zero ELSE Add(SumSeq(SubSeq(xs, 1, Len(xs) - 1)), xs[Len(xs)])

RECURSIVE FlatSeq(_)
\* the concatenation of a sequence of sequences (flatMap's flattening)
FlatSeq(xss) == IF xss = <<>> THEN <<>> ELSE Head(xss) \o FlatSeq(Tail(xss))

RECURSIVE Join(_, _)
\* parts.join(separator)
Join(parts, separator) ==
    IF parts = <<>> THEN ""
    ELSE IF Len(parts) = 1 THEN parts[1]
    ELSE parts[1] \o separator \o Join(Tail(parts), separator)

----------------------------------------------------------------------------
(* Weighted aggregator *)

usdValues(items) == [i \in 1..Len(items) |-> items[i].usdValue]

\* weightedAverage dividing by the number of items instead of the total weight
weightedAverage_byCount(items, valueSelector) ==
    LET totalWeight == SumSeq(usdValues(items))
        weighted == SumSeq([i \in 1..Len(items) |->
                               Mul(items[i][valueSelector], items[i].usdValue)])
    IN  IF Le(totalWeight, Zero) THEN Zero ELSE Div(weighted, I(Len(items)))

\* valueSelector is the name of the field the selector reads:
\* (asset) => asset.maxLTV is "maxLTV"
weightedAverage(items, valueSelector) ==
    LET totalWeight == SumSeq(usdValues(items))
        weighted == SumSeq([i \in 1..Len(items) |->
                               Mul(items[i][valueSelector], items[i].usdValue)])
    IN  IF Le(totalWeight, Zero) THEN Zero ELSE Div(weighted, totalWeight)

----------------------------------------------------------------------------
(* Data acquisition: fetchFromAaveSubgraph and fetchUsdPrices.  A market's    *)
(* progress through its endpoint list is a record                            *)
(*   [next, failures, sawHostedServiceRemoval, settled, reserves, requested] *)
(* where endpoint number next is the request in flight and requested lists   *)
(* the endpoints asked so far.                                               *)

\* the value of GRAPH_API_KEY when it is set
GraphApiKeyValue == "key"

\* AAVE_MARKETS
AAVE_MARKETS ==
    << [marketName |-> "proto_mainnet_v3",
        graphSubgraphId |-> "Cd2gEDVeqnjBn1hSeqFMitw8Q1iiyV9FYUZkLNRcL87g",
        fallbackEndpoints |-> <<"https://api.thegraph.com/subgraphs/name/aave/protocol-v3">>],
       [marketName |-> "proto_lido_v3",
        graphSubgraphId |-> "5vxMbXRhG1oQr55MWC5j6qg78waWujx1wjeuEWDA6j3",
        fallbackEndpoints |-> <<>>] >>

\* the candidate endpoints of a market, gateway first when the key is set
endpointsOf(market, hasGraphApiKey) ==
    (IF hasGraphApiKey
     THEN << "https://gateway-arbitrum.network.thegraph.com/api/" \o GraphApiKeyValue
             \o "/subgraphs/id/" \o market.graphSubgraphId >>
     ELSE <<>>) \o market.fallbackEndpoints

\* { ...reserve, __marketName: result.marketName }
withMarket(reserve, marketName) == [marketName |-> marketName] @@ reserve

\* the state of a market when its async callback first suspends or returns
marketStart(market, hasGraphApiKey) ==
    LET endpoints == endpointsOf(market, hasGraphApiKey)
    IN  IF Len(endpoints) = 0
        THEN [next |-> 0,
              failures |-> <<"No endpoint configured (set VITE_THE_GRAPH_API_KEY).">>,
              sawHostedServiceRemoval |-> FALSE,
              settled |-> TRUE,
              reserves |-> <<>>,
              requested |-> <<>>]
        ELSE [next |-> 1,
              failures |-> <<>>,
              sawHostedServiceRemoval |-> FALSE,
              settled |-> FALSE,
              reserves |-> <<>>,
              requested |-> <<endpoints[1]>>]

\* what one endpoint can answer: kind is "network" (fetch or json() rejects),
\* "status" (response.ok is false), "graphql" (payload.errors is non-empty,
\* removed telling whether a message says the endpoint has been removed) or
\* "clean" (userReserves, <<>> when data or userReserves is missing)
failureLabel(endpoint, outcome) ==
    CASE outcome.kind = "network" -> endpoint \o " (network)"
      [] outcome.kind = "status" -> endpoint \o " (" \o ToString(outcome.status) \o ")"
      [] outcome.kind = "graphql" -> endpoint \o " (GraphQL error)"

\* marketStep that returns on the first failure instead of going on to the
\* next endpoint
marketStep_noFallback(market, hasGraphApiKey, state, outcome) ==
    IF outcome.kind = "clean"
    THEN [state EXCEPT !.failures = <<>>,
                       !.sawHostedServiceRemoval = FALSE,
                       !.settled = TRUE,
                       !.reserves = outcome.userReserves]
    ELSE [state EXCEPT !.failures =
                           Append(state.failures,
                                  failureLabel(endpointsOf(market, hasGraphApiKey)[state.next],
                                               outcome)),
                       !.settled = TRUE,
                       !.reserves = <<>>]

\* one turn of the endpoint loop: the market's state after the endpoint in
\* flight has answered
marketStep(market, hasGraphApiKey, state, outcome) ==
    LET endpoints == endpointsOf(market, hasGraphApiKey)
        endpoint == endpoints[state.next]
    IN  IF outcome.kind = "clean"
        THEN [state EXCEPT !.failures = <<>>,
                           !.sawHostedServiceRemoval = FALSE,
                           !.settled = TRUE,
                           !.reserves = outcome.userReserves]
        ELSE LET failures == Append(state.failures, failureLabel(endpoint, outcome))
                 saw == state.sawHostedServiceRemoval
                            \/ (outcome.kind = "graphql" /\ outcome.removed)
             IN  IF state.next < Len(endpoints)
                 THEN [state EXCEPT !.next = state.next + 1,
                                    !.failures = failures,
                                    !.sawHostedServiceRemoval = saw,
                                    !.requested = Append(state.requested,
                                                         endpoints[state.next + 1])]
                 ELSE [state EXCEPT !.failures = failures,
                                    !.sawHostedServiceRemoval = saw,
                                    !.settled = TRUE,
                                    !.reserves = <<>>]

HostedServiceRemovedMessage ==
    "Aave subgraph hosted-service endpoints were deprecated. Set VITE_THE_GRAPH_API_KEY in your .env (The Graph API key) and restart the dev server."

\* subgraphOutcome that throws as soon as one market has failed
subgraphOutcome_allOrNothing(marketResults, hasGraphApiKey) ==
    IF \A i \in 1..Len(marketResults) : Len(marketResults[i].failures) = 0
    THEN [ok |-> TRUE,
          reserves |->
              FlatSeq([i \in 1..Len(marketResults) |->
                  [j \in 1..Len(marketResults[i].reserves) |->
                      withMarket(marketResults[i].reserves[j], AAVE_MARKETS[i].marketName)]])]
    ELSE [ok |-> FALSE, message |-> "Unable to fetch Aave user reserves from public endpoints."]

\* the value fetchFromAaveSubgraph settles with once every market has settled:
\* [ok |-> TRUE, reserves] when it resolves, [ok |-> FALSE, message] when it throws
subgraphOutcome(marketResults, hasGraphApiKey) ==
    LET successful == SelectSeq([i \in 1..Len(marketResults) |-> i],
                                LAMBDA i : Len(marketResults[i].failures) = 0)
    IN  IF Len(successful) > 0
        THEN [ok |-> TRUE,
              reserves |->
                  FlatSeq([k \in 1..Len(successful) |->
                      [j \in 1..Len(marketResults[successful[k]].reserves) |->
                          withMarket(marketResults[successful[k]].reserves[j],
                                     AAVE_MARKETS[successful[k]].marketName)]])]
        ELSE IF ~hasGraphApiKey
                /\ \E i \in 1..Len(marketResults) : marketResults[i].sawHostedServiceRemoval
        THEN [ok |-> FALSE, message |-> HostedServiceRemovedMessage]
        ELSE [ok |-> FALSE,
              message |->
                  "Unable to fetch Aave user reserves from public endpoints. Tried: "
                  \o Join([i \in 1..Len(marketResults) |->
                              AAVE_MARKETS[i].marketName \o ": "
                              \o Join(marketResults[i].failures, ", ")],
                          " | ")]

\* COINGECKO_IDS_BY_SYMBOL, for the symbols of the model
COINGECKO_IDS_BY_SYMBOL ==
    [ETH |-> "ethereum", WETH |-> "weth", USDC |-> "usd-coin"]

\* the ids fetchUsdPrices asks CoinGecko for
priceIds(symbols) ==
    { COINGECKO_IDS_BY_SYMBOL[ToUpperCase(sym)] :
        sym \in {x \in symbols : ToUpperCase(x) \in DOMAIN COINGECKO_IDS_BY_SYMBOL} }

\* the Map built from a CoinGecko payload: one entry per known symbol whose id
\* carries a numeric usd
pricesFromPayload(payload) ==
    [sym \in {x \in DOMAIN COINGECKO_IDS_BY_SYMBOL :
                 COINGECKO_IDS_BY_SYMBOL[x] \in DOMAIN payload}
        |-> payload[COINGECKO_IDS_BY_SYMBOL[sym]]]

\* fetchUsdPrices falling back to a price of 1 for every known symbol when
\* the request fails
pricesFromAnswer_unitFallback(answer) ==
    IF answer.kind = "payload" THEN pricesFromPayload(answer.payload)
    ELSE [sym \in DOMAIN COINGECKO_IDS_BY_SYMBOL |-> I(1)]

\* what fetchUsdPrices returns for an answer of kind "network", "status" or
\* "payload"
pricesFromAnswer(answer) ==
    IF answer.kind = "payload" THEN pricesFromPayload(answer.payload) ELSE <<>>

----------------------------------------------------------------------------
(* Position builder *)

\* prices.get(symbol) without the ?? 0 default: undefined makes the product NaN
PriceOf_noDefault(prices, symbol) == IF symbol \in DOMAIN prices THEN prices[symbol] ELSE NaN

\* prices.get(symbol) ?? 0
PriceOf(prices, symbol) == IF symbol \in DOMAIN prices THEN prices[symbol] ELSE Zero

toAssetPosition(raw, amount, prices) ==
    LET address == ToLowerCase(raw.reserve.underlyingAsset)
        symbol == ToUpperCase(raw.reserve.symbol)
        usdPrice == PriceOf(prices, symbol)
    IN  [symbol |-> symbol,
         address |-> address,
         amount |-> amount,
         usdPrice |-> usdPrice,
         usdValue |-> Mul(amount, usdPrice),
         collateralEnabled |-> raw.usageAsCollateralEnabledOnUser,
         maxLTV |-> fromBps(raw.reserve.baseLTVasCollateral),
         liqThreshold |-> fromBps(raw.reserve.reserveLiquidationThreshold),
         supplyRate |-> fromRay(raw.reserve.liquidityRate),
         borrowRate |-> fromRay(raw.reserve.variableBorrowRate)]

RECURSIVE MarketOrder(_)
\* the keys of loansByMarket: market names in order of first appearance
MarketOrder(reserves) ==
    IF reserves = <<>> THEN <<>>
    ELSE LET init == MarketOrder(SubSeq(reserves, 1, Len(reserves) - 1))
             m == reserves[Len(reserves)].marketName
         IN  IF \E i \in 1..Len(init) : init[i] = m THEN init ELSE Append(init, m)

\* marketReserves without the grouping: every market gets every record
marketReserves_ungrouped(reserves, marketName) == reserves

\* loansByMarket.get(marketName): the market's records, in record order
marketReserves(reserves, marketName) ==
    SelectSeq(reserves, LAMBDA r : r.marketName = marketName)

suppliedAssets(group, prices) ==
    SelectSeq([i \in 1..Len(group) |->
                  toAssetPosition(group[i],
                      parseBalance(group[i].currentATokenBalance, group[i].reserve.decimals),
                      prices)],
              LAMBDA entry : Gt(entry.amount, Zero))

\* borrowedAssets keeping the entries whose amount is >= 0
borrowedAssets_nonNegative(group, prices) ==
    SelectSeq([i \in 1..Len(group) |->
                  toAssetPosition(group[i],
                      parseBalance(group[i].currentTotalDebt, group[i].reserve.decimals),
                      prices)],
              LAMBDA entry : Ge(entry.amount, Zero))

borrowedAssets(group, prices) ==
    SelectSeq([i \in 1..Len(group) |->
                  toAssetPosition(group[i],
                      parseBalance(group[i].currentTotalDebt, group[i].reserve.decimals),
                      prices)],
              LAMBDA entry : Gt(entry.amount, Zero))

\* collateralSupplies without the collateralEnabled filter
collateralSupplies_all(group, prices) == suppliedAssets(group, prices)

collateralSupplies(group, prices) ==
    SelectSeq(suppliedAssets(group, prices), LAMBDA asset : asset.collateralEnabled)

\* loanId without the index
loanId_noIndex(marketName, borrowed, index) == marketName \o "-" \o borrowed.address

\* `${marketName}-${borrowed.address}-${index}`, index counted from 0
loanId(marketName, borrowed, index) ==
    marketName \o "-" \o borrowed.address \o "-" \o ToString(index)

marketLoans(marketName, group, prices) ==
    LET borrows == borrowedAssets(group, prices)
        collateral == collateralSupplies(group, prices)
    IN  [k \in 1..Len(borrows) |->
            [id |-> loanId(marketName, borrows[k], k - 1),
             marketName |-> marketName,
             borrowed |-> borrows[k],
             supplied |-> collateral,
             totalBorrowedUsd |-> borrows[k].usdValue,
             totalSuppliedUsd |-> SumSeq(usdValues(collateral))]]

buildLoanPositions(reserves, prices) ==
    LET order == MarketOrder(reserves)
    IN  FlatSeq([j \in 1..Len(order) |->
                    marketLoans(order[j], marketReserves(reserves, order[j]), prices)])

----------------------------------------------------------------------------
(* Loan metrics calculator.  Every field of Computed is an operator of its   *)
(* own, named after the local constant of computeLoanMetrics it models.      *)

\* the neutral record with every numeric field 0
NoLoanMetrics_allZero ==
    [units |-> Zero, px |-> Zero, debt |-> Zero, collateralUSD |-> Zero,
     equity |-> Zero, ltv |-> Zero, leverage |-> Zero,
     healthFactor |-> Zero, liqPrice |-> Zero,
     collateralUSDAtLiq |-> Zero, ltvAtLiq |-> Zero, priceDropToLiq |-> Zero,
     supplyEarnUSD |-> Zero, borrowCostUSD |-> Zero, deployEarnUSD |-> Zero,
     netEarnUSD |-> Zero, netAPYOnEquity |-> Zero, maxBorrowByLTV |-> Zero,
     borrowHeadroom |-> Zero, borrowPowerUsed |-> Zero,
     equityMoveFor10Pct |-> Zero, collateralBufferUSD |-> Zero,
     alertHF |-> FALSE, alertLTV |-> FALSE,
     ltvMax |-> Zero, lt |-> Zero, rSupply |-> Zero, rBorrow |-> Zero,
     rDeploy |-> Zero, primaryCollateralSymbol |-> "-"]

\* the record returned for "no selection" (loan = null); the em dash of
\* primaryCollateralSymbol is written "-"
NoLoanMetrics ==
    [units |-> Zero, px |-> Zero, debt |-> Zero, collateralUSD |-> Zero,
     equity |-> Zero, ltv |-> Zero, leverage |-> Zero,
     healthFactor |-> Infinity, liqPrice |-> Infinity,
     collateralUSDAtLiq |-> Infinity, ltvAtLiq |-> Zero, priceDropToLiq |-> Zero,
     supplyEarnUSD |-> Zero, borrowCostUSD |-> Zero, deployEarnUSD |-> Zero,
     netEarnUSD |-> Zero, netAPYOnEquity |-> Zero, maxBorrowByLTV |-> Zero,
     borrowHeadroom |-> Zero, borrowPowerUsed |-> Zero,
     equityMoveFor10Pct |-> Zero, collateralBufferUSD |-> Zero,
     alertHF |-> FALSE, alertLTV |-> FALSE,
     ltvMax |-> Zero, lt |-> Zero, rSupply |-> Zero, rBorrow |-> Zero,
     rDeploy |-> Zero, primaryCollateralSymbol |-> "-"]

\* loan = null
NoLoan == [id |-> "null"]

equityOf(collateralUSD, debt) == Sub(collateralUSD, debt)

rDeployOf == Zero

\* ltvOf without the collateralUSD > 0 guard
ltvOf_unguarded(collateralUSD, debt) == Div(debt, collateralUSD)

ltvOf(collateralUSD, debt) ==
    IF Gt(collateralUSD, Zero) THEN Div(debt, collateralUSD) ELSE Zero

\* leverageOf as debt over equity (debt = collateralUSD - equity)
leverageOf_debtOverEquity(collateralUSD, equity) ==
    IF Gt(equity, Zero) THEN Div(Sub(collateralUSD, equity), equity) ELSE Infinity

leverageOf(collateralUSD, equity) ==
    IF Gt(equity, Zero) THEN Div(collateralUSD, equity) ELSE Infinity

\* healthFactorOf without the debt > 0 guard
healthFactorOf_unguarded(collateralUSD, lt, debt) == Div(Mul(collateralUSD, lt), debt)

healthFactorOf(collateralUSD, lt, debt) ==
    IF Gt(debt, Zero) THEN Div(Mul(collateralUSD, lt), debt) ELSE Infinity

RECURSIVE primaryIndex_lastOnTie(_)
\* primaryIndex with >= in place of >: the last of the largest
primaryIndex_lastOnTie(supplied) ==
    IF Len(supplied) <= 1 THEN Len(supplied)
    ELSE LET max == primaryIndex_lastOnTie(SubSeq(supplied, 1, Len(supplied) - 1))
         IN  IF Ge(supplied[Len(supplied)].usdValue, supplied[max].usdValue)
             THEN Len(supplied) ELSE max

RECURSIVE primaryIndex(_)
\* the index in supplied of supplied.reduce((max, current) =>
\* current.usdValue > max.usdValue ? current : max); 0 for an empty list
primaryIndex(supplied) ==
    IF Len(supplied) <= 1 THEN Len(supplied)
    ELSE LET max == primaryIndex(SubSeq(supplied, 1, Len(supplied) - 1))
         IN  IF Gt(supplied[Len(supplied)].usdValue, supplied[max].usdValue)
             THEN Len(supplied) ELSE max

\* collateralUSDAtLiqOf as debt * lt
collateralUSDAtLiqOf_product(lt, debt) == IF Gt(lt, Zero) THEN Mul(debt, lt) ELSE Infinity

collateralUSDAtLiqOf(lt, debt) == IF Gt(lt, Zero) THEN Div(debt, lt) ELSE Infinity

liqPriceOf(units, primaryUsdAtLiq) ==
    IF Gt(units, Zero) THEN Div(primaryUsdAtLiq, units) ELSE Infinity

ltvAtLiqOf(collateralUSDAtLiq, debt) ==
    IF Gt(collateralUSDAtLiq, Zero) THEN Div(debt, collateralUSDAtLiq) ELSE Zero

priceDropToLiqOf(px, liqPrice) ==
    IF Gt(px, Zero) /\ IsFinite(liqPrice) THEN Div(Sub(px, liqPrice), px) ELSE Zero

netEarnUSDOf(supplyEarnUSD, deployEarnUSD, borrowCostUSD) ==
    Sub(Add(supplyEarnUSD, deployEarnUSD), borrowCostUSD)

netAPYOnEquityOf(netEarnUSD, equity) ==
    IF Gt(equity, Zero) THEN Div(netEarnUSD, equity) ELSE Zero

borrowPowerUsedOf(maxBorrowByLTV, debt) ==
    IF Gt(maxBorrowByLTV, Zero) THEN Div(debt, maxBorrowByLTV) ELSE Zero

equityMoveFor10PctOf(leverage) ==
    IF IsFinite(leverage) THEN Mul(leverage, Q(1, 10)) ELSE Zero

\* alertHF raised only below the Danger band
alertHFOf_danger(healthFactor) == Lt(healthFactor, Q(11, 10))

alertHFOf(healthFactor) == Lt(healthFactor, Q(3, 2))

alertLTVOf(ltv, lt) == Gt(ltv, Mul(Q(7, 10), lt))

loanMetrics(loan) ==
    LET debt == loan.totalBorrowedUsd
        collateralUSD == loan.totalSuppliedUsd
        equity == equityOf(collateralUSD, debt)
        ltvMax == weightedAverage(loan.supplied, "maxLTV")
        lt == weightedAverage(loan.supplied, "liqThreshold")
        rSupply == weightedAverage(loan.supplied, "supplyRate")
        rBorrow == loan.borrowed.borrowRate
        rDeploy == rDeployOf
        ltv == ltvOf(collateralUSD, debt)
        leverage == leverageOf(collateralUSD, equity)
        healthFactor == healthFactorOf(collateralUSD, lt, debt)
        primary == primaryIndex(loan.supplied)
        units == IF primary = 0 THEN Zero ELSE loan.supplied[primary].amount
        px == IF primary = 0 THEN Zero ELSE loan.supplied[primary].usdPrice
        primaryCollateralSymbol ==
            IF primary = 0 THEN "-" ELSE loan.supplied[primary].symbol
        collateralUSDAtLiq == collateralUSDAtLiqOf(lt, debt)
        collateralOtherUSD ==
            Sub(collateralUSD,
                IF primary = 0 THEN Zero ELSE loan.supplied[primary].usdValue)
        primaryUsdAtLiq == Sub(collateralUSDAtLiq, collateralOtherUSD)
        liqPrice == liqPriceOf(units, primaryUsdAtLiq)
        supplyEarnUSD == Mul(collateralUSD, rSupply)
        borrowCostUSD == Mul(debt, rBorrow)
        deployEarnUSD == Mul(debt, rDeploy)
        netEarnUSD == netEarnUSDOf(supplyEarnUSD, deployEarnUSD, borrowCostUSD)
        maxBorrowByLTV == Mul(collateralUSD, ltvMax)
    IN  [units |-> units, px |-> px, debt |-> debt, collateralUSD |-> collateralUSD,
         equity |-> equity, ltv |-> ltv, leverage |-> leverage,
         healthFactor |-> healthFactor, liqPrice |-> liqPrice,
         collateralUSDAtLiq |-> collateralUSDAtLiq,
         ltvAtLiq |-> ltvAtLiqOf(collateralUSDAtLiq, debt),
         priceDropToLiq |-> priceDropToLiqOf(px, liqPrice),
         supplyEarnUSD |-> supplyEarnUSD, borrowCostUSD |-> borrowCostUSD,
         deployEarnUSD |-> deployEarnUSD, netEarnUSD |-> netEarnUSD,
         netAPYOnEquity |-> netAPYOnEquityOf(netEarnUSD, equity),
         maxBorrowByLTV |-> maxBorrowByLTV,
         borrowHeadroom |-> Sub(maxBorrowByLTV, debt),
         borrowPowerUsed |-> borrowPowerUsedOf(maxBorrowByLTV, debt),
         equityMoveFor10Pct |-> equityMoveFor10PctOf(leverage),
         collateralBufferUSD |-> Sub(collateralUSD, collateralUSDAtLiq),
         alertHF |-> alertHFOf(healthFactor), alertLTV |-> alertLTVOf(ltv, lt),
         ltvMax |-> ltvMax, lt |-> lt, rSupply |-> rSupply, rBorrow |-> rBorrow,
         rDeploy |-> rDeploy, primaryCollateralSymbol |-> primaryCollateralSymbol]

computeLoanMetrics(loan) == IF loan = NoLoan THEN NoLoanMetrics ELSE loanMetrics(loan)

\* healthLabel without the Number.isFinite test
healthLabel_finiteOnly(hf) ==
    IF Le(hf, Zero) THEN [label |-> "Invalid", tone |-> "danger"]
    ELSE IF Lt(hf, Q(11, 10)) THEN [label |-> "Danger", tone |-> "danger"]
    ELSE IF Lt(hf, Q(3, 2)) THEN [label |-> "Tight", tone |-> "warning"]
    ELSE IF Lt(hf, I(2)) THEN [label |-> "OK", tone |-> "neutral"]
    ELSE [label |-> "Safe", tone |-> "positive"]

\* healthLabel(hf): the badge of a health factor
healthLabel(hf) ==
    IF ~IsFinite(hf) \/ Le(hf, Zero) THEN [label |-> "Invalid", tone |-> "danger"]
    ELSE IF Lt(hf, Q(11, 10)) THEN [label |-> "Danger", tone |-> "danger"]
    ELSE IF Lt(hf, Q(3, 2)) THEN [label |-> "Tight", tone |-> "warning"]
    ELSE IF Lt(hf, I(2)) THEN [label |-> "OK", tone |-> "neutral"]
    ELSE [label |-> "Safe", tone |-> "positive"]

----------------------------------------------------------------------------
(* Portfolio aggregator (the portfolio memo of App) *)

\* portfolio = null
NoPortfolio == [loanCount |-> 0]

field(metrics, name) == [i \in 1..Len(metrics) |-> metrics[i][name]]

finiteHealthFactors(metrics) ==
    SelectSeq(field(metrics, "healthFactor"), LAMBDA item : IsFinite(item))

\* averageHealthFactorOf dividing by the number of all loans
averageHealthFactorOf_allLoans(metrics) ==
    LET finite == finiteHealthFactors(metrics)
    IN  IF Len(finite) > 0 THEN Div(SumSeq(finite), I(Len(metrics))) ELSE Infinity

averageHealthFactorOf(metrics) ==
    LET finite == finiteHealthFactors(metrics)
    IN  IF Len(finite) > 0 THEN Div(SumSeq(finite), I(Len(finite))) ELSE Infinity

\* guardedRatio without the denominator > 0 guard
guardedRatio_unguarded(numerator, denominator) == Div(numerator, denominator)

\* denominator > 0 ? numerator / denominator : 0
guardedRatio(numerator, denominator) ==
    IF Gt(denominator, Zero) THEN Div(numerator, denominator) ELSE Zero

\* the portfolio memo counting the collateral of a market once, with the
\* first loan of the market
portfolioOf_perMarket(loans) ==
    IF Len(loans) = 0 THEN NoPortfolio
    ELSE LET metrics == [i \in 1..Len(loans) |-> computeLoanMetrics(loans[i])]
             totalDebt == SumSeq(field(metrics, "debt"))
             totalCollateral ==
                 SumSeq([i \in 1..Len(loans) |->
                            IF \E j \in 1..(i - 1) : loans[j].marketName = loans[i].marketName
                            THEN Zero
                            ELSE metrics[i].collateralUSD])
             totalNetWorth == SumSeq(field(metrics, "equity"))
             totalSupplyEarn == SumSeq(field(metrics, "supplyEarnUSD"))
             totalBorrowCost == SumSeq(field(metrics, "borrowCostUSD"))
             totalDeployEarn == SumSeq(field(metrics, "deployEarnUSD"))
             totalNetEarn == SumSeq(field(metrics, "netEarnUSD"))
             totalMaxBorrow == SumSeq(field(metrics, "maxBorrowByLTV"))
         IN  [loanCount |-> Len(metrics),
              totalDebt |-> totalDebt,
              totalCollateral |-> totalCollateral,
              totalNetWorth |-> totalNetWorth,
              totalSupplyEarn |-> totalSupplyEarn,
              totalBorrowCost |-> totalBorrowCost,
              totalDeployEarn |-> totalDeployEarn,
              totalNetEarn |-> totalNetEarn,
              averageHealthFactor |-> averageHealthFactorOf(metrics),
              averageSupplyApy |-> guardedRatio(totalSupplyEarn, totalCollateral),
              averageBorrowApy |-> guardedRatio(totalBorrowCost, totalDebt),
              portfolioNetApy |-> guardedRatio(totalNetEarn, totalNetWorth),
              borrowPowerUsed |-> guardedRatio(totalDebt, totalMaxBorrow)]

portfolioOf(loans) ==
    IF Len(loans) = 0 THEN NoPortfolio
    ELSE LET metrics == [i \in 1..Len(loans) |-> computeLoanMetrics(loans[i])]
             totalDebt == SumSeq(field(metrics, "debt"))
             totalCollateral == SumSeq(field(metrics, "collateralUSD"))
             totalNetWorth == SumSeq(field(metrics, "equity"))
             totalSupplyEarn == SumSeq(field(metrics, "supplyEarnUSD"))
             totalBorrowCost == SumSeq(field(metrics, "borrowCostUSD"))
             totalDeployEarn == SumSeq(field(metrics, "deployEarnUSD"))
             totalNetEarn == SumSeq(field(metrics, "netEarnUSD"))
             totalMaxBorrow == SumSeq(field(metrics, "maxBorrowByLTV"))
         IN  [loanCount |-> Len(metrics),
              totalDebt |-> totalDebt,
              totalCollateral |-> totalCollateral,
              totalNetWorth |-> totalNetWorth,
              totalSupplyEarn |-> totalSupplyEarn,
              totalBorrowCost |-> totalBorrowCost,
              totalDeployEarn |-> totalDeployEarn,
              totalNetEarn |-> totalNetEarn,
              averageHealthFactor |-> averageHealthFactorOf(metrics),
              averageSupplyApy |-> guardedRatio(totalSupplyEarn, totalCollateral),
              averageBorrowApy |-> guardedRatio(totalBorrowCost, totalDebt),
              portfolioNetApy |-> guardedRatio(totalNetEarn, totalNetWorth),
              borrowPowerUsed |-> guardedRatio(totalDebt, totalMaxBorrow)]

----------------------------------------------------------------------------
(* Inputs the specifications draw from *)

\* longest raw record list drawn for the position builder
MaxReserves == 3

\* longest supplied list of a directly constructed LoanPosition
MaxSupplied == 2

\* AAVE_MARKETS[i].marketName
MarketNames == [i \in 1..Len(AAVE_MARKETS) |-> AAVE_MARKETS[i].marketName]

ray2pct == "20000000000000000000000000"

ray5pct == "50000000000000000000000000"

\* reserve metadata as the subgraph returns it; the last one is malformed
ReserveWETH ==
    [symbol |-> "WETH", decimals |-> 6, underlyingAsset |-> "0xAA",
     baseLTVasCollateral |-> "8000", reserveLiquidationThreshold |-> "8250",
     liquidityRate |-> ray2pct, variableBorrowRate |-> ray5pct]

ReserveWethLower ==
    [symbol |-> "weth", decimals |-> 6, underlyingAsset |-> "0xaa",
     baseLTVasCollateral |-> "8000", reserveLiquidationThreshold |-> "8,250",
     liquidityRate |-> ray2pct, variableBorrowRate |-> ray5pct]

ReserveUSDC ==
    [symbol |-> "USDC", decimals |-> 6, underlyingAsset |-> "0xbb",
     baseLTVasCollateral |-> "5000", reserveLiquidationThreshold |-> "5000",
     liquidityRate |-> ray5pct, variableBorrowRate |-> ray2pct]

ReserveXYZ ==
    [symbol |-> "XYZ", decimals |-> 5, underlyingAsset |-> "0xcc",
     baseLTVasCollateral |-> "abc", reserveLiquidationThreshold |-> "12000",
     liquidityRate |-> "-50000000000000000000000000", variableBorrowRate |-> "abc"]

\* a RawUserReserve as one endpoint returns it
RawReserve(reserve, balance, debt, enabled) ==
    [currentATokenBalance |-> balance,
     currentTotalDebt |-> debt,
     usageAsCollateralEnabledOnUser |-> enabled,
     reserve |-> reserve]

\* a RawUserReserveWithMarket
RawRecord(marketName, reserve, balance, debt, enabled) ==
    withMarket(RawReserve(reserve, balance, debt, enabled), marketName)

\* the raw records of market m that lists are drawn from
MainnetRecords ==
    LET m == MarketNames[1]
    IN  { RawRecord(m, ReserveWETH, "2000000", "-1000000", TRUE),
          RawRecord(m, ReserveWethLower, "1000000", "2000000", TRUE),
          RawRecord(m, ReserveUSDC, "", "1000000", FALSE),
          RawRecord(m, ReserveUSDC, "2000000", "1000000", TRUE),
          RawRecord(m, ReserveUSDC, "2000000", "0", FALSE),
          RawRecord(m, ReserveXYZ, "abc", "1000000", TRUE),
          RawRecord(m, ReserveXYZ, "2000000", "1,000,000", TRUE) }

LidoRecords ==
    LET m == MarketNames[2]
    IN  { RawRecord(m, ReserveWETH, "2000000", "1000000", TRUE),
          RawRecord(m, ReserveUSDC, "0", "1000000", TRUE) }

RawRecords == MainnetRecords \cup LidoRecords

SeqsUpTo(S, k) == UNION { [1..m -> S] : m \in 0..k }

\* CoinGecko payloads: id -> usd
Payloads ==
    { ("weth" :> I(2)) @@ ("usd-coin" :> I(1)),
      ("usd-coin" :> I(1)),
      ("weth" :> I(2)) @@ ("usd-coin" :> I(-1)) }

\* symbol -> USD price maps that fetchUsdPrices can return
PriceMaps == {pricesFromPayload(q) : q \in Payloads}

\* what the price request of a refresh can end in
PriceAnswers ==
    { [kind |-> "network"],
      [kind |-> "status"],
      [kind |-> "payload", payload |-> ("weth" :> I(2)) @@ ("usd-coin" :> I(1))] }

\* the userReserves lists a clean endpoint answer of market i can carry: the
\* wallet borrows USDC against WETH on the first market and holds a reserve
\* without a CoinGecko id on the others
UserReserveLists(i) ==
    IF i = 1
    THEN { <<>>,
           <<RawReserve(ReserveWETH, "2000000", "0", TRUE),
             RawReserve(ReserveUSDC, "0", "1000000", FALSE)>> }
    ELSE { <<>>,
           <<RawReserve(ReserveXYZ, "2000000", "1000000", TRUE)>> }

\* what one endpoint request of market i can end in
EndpointOutcomes(i) ==
    {[kind |-> "network"], [kind |-> "status", status |-> 500]}
        \cup {[kind |-> "graphql", removed |-> TRUE]}
        \cup {[kind |-> "clean", userReserves |-> l] : l \in UserReserveLists(i)}

Wallet1 == "0x1111111111111111111111111111111111111111"

Wallet2 == "0xAbCdEfAbCdEfAbCdEfAbCdEfAbCdEfAbCdEfAbCd"

Wallet1Padded == " 0x1111111111111111111111111111111111111111 "

\* texts the wallet input can hold
WalletInputs == {Wallet1Padded, "0x123"}

\* s.trim()
Trim(str) == IF str = Wallet1Padded THEN Wallet1 ELSE str

\* ETHEREUM_ADDRESS_REGEX.test(s)
IsEthereumAddress(str) == str \in {Wallet1, Wallet2}

\* window.location.search values: the wallet parameters present
Searches ==
    { <<>>,
      [wallet |-> Wallet1Padded],
      [wallet |-> "0x123", address |-> Wallet2] }

\* how many fetchLoans calls a behaviour starts
MaxFetches == 3

\* how often the mount effect runs (twice under React's StrictMode)
MaxEffectRuns == 2


\* USD prices and totals a directly constructed LoanPosition may carry
UsdValues == {Zero, I(1), I(2), I(-1), Infinity, NegInfinity}

\* <<maxLTV, liqThreshold, supplyRate>> of a directly constructed asset
Thresholds == { <<Q(4, 5), Q(33, 40), Q(1, 50)>>, <<Q(1, 2), Q(-1, 2), Infinity>> }

\* one unit of collateral at each of the prices above
ArbitraryAssets ==
    { [symbol |-> "WETH", address |-> "0xaa", amount |-> I(1), usdPrice |-> v,
       usdValue |-> Mul(I(1), v), collateralEnabled |-> TRUE,
       maxLTV |-> t[1], liqThreshold |-> t[2], supplyRate |-> t[3],
       borrowRate |-> Zero] :
      v \in UsdValues, t \in Thresholds }

BorrowedAssets ==
    { [symbol |-> "USDC", address |-> "0xbb", amount |-> I(1), usdPrice |-> I(1),
       usdValue |-> I(1), collateralEnabled |-> FALSE,
       maxLTV |-> Zero, liqThreshold |-> Zero, supplyRate |-> Zero,
       borrowRate |-> r] : r \in {Q(1, 20), Infinity} }

\* every well-typed LoanPosition over the values above: the totals need not
\* agree with the assets, and fields may be negative or infinite
ArbitraryLoans ==
    { [id |-> "loan", marketName |-> MarketNames[1], borrowed |-> b, supplied |-> s,
       totalBorrowedUsd |-> debt, totalSuppliedUsd |-> collateral] :
      b \in BorrowedAssets, s \in SeqsUpTo(ArbitraryAssets, MaxSupplied),
      debt \in {Zero, I(1), I(-1), Infinity, Q(3, 2), Q(11, 10), Q(33, 40)},
      collateral \in {Zero, I(2), Infinity, NegInfinity} }

----------------------------------------------------------------------------
(* State *)

VARIABLES
    \* the pure-function runs (SpecEngine, SpecMetrics)
    phase,        \* "input", "built", "done"; "app" in Spec
    inReserves,   \* the raw record list given to buildLoanPositions
    inPrices,     \* the price map given to buildLoanPositions
    outLoans,     \* the list buildLoanPositions returned
    outMetrics,   \* computeLoanMetrics of each loan (metrics of the portfolio memo)
    outPortfolio, \* the portfolio memo
    inLoan,       \* a LoanPosition, or NoLoan, given to computeLoanMetrics
    outComputed,  \* what computeLoanMetrics returned for inLoan
    \* the App component (Spec)
    search,       \* window.location.search, as its three wallet parameters
    hasGraphApiKey, \* whether GRAPH_API_KEY is set
    wallet,       \* useState: the text of the wallet input
    selectedLoanId, \* useState
    isLoading,    \* useState
    error,        \* useState
    result,       \* useState: NoResult or a FetchState
    now,          \* useState: Date.now() when the last snapshot was stored, on a
                  \* logical clock that ticks when a call starts (the 10 s
                  \* display tick that also sets it is left out)
    hasAutoFetchedFromQuery, \* useRef
    effectRuns,   \* how often the mount effect has run
    started,      \* how many fetchLoans calls have started
    calls         \* the fetchLoans calls in flight, oldest first

engineVars == <<phase, inReserves, inPrices, outLoans, outMetrics, outPortfolio,
                inLoan, outComputed>>

appVars == <<search, hasGraphApiKey, wallet, selectedLoanId, isLoading, error,
             result, now, hasAutoFetchedFromQuery, effectRuns, started, calls>>

vars == <<engineVars, appVars>>

\* result = null
NoResult == [wallet |-> ""]

\* outComputed before computeLoanMetrics has run
NotComputed == <<>>

\* the App variables in the specifications that do not run the component
AppIdle ==
    /\ search = <<>>
    /\ hasGraphApiKey = FALSE
    /\ wallet = ""
    /\ selectedLoanId = ""
    /\ isLoading = FALSE
    /\ error = ""
    /\ result = NoResult
    /\ now = 0
    /\ hasAutoFetchedFromQuery = FALSE
    /\ effectRuns = 0
    /\ started = 0
    /\ calls = <<>>

\* the pure-function variables in Spec
EngineIdle ==
    /\ phase = "app"
    /\ inReserves = <<>>
    /\ inPrices = <<>>
    /\ outLoans = <<>>
    /\ outMetrics = <<>>
    /\ outPortfolio = NoPortfolio
    /\ inLoan = NoLoan
    /\ outComputed = NotComputed

----------------------------------------------------------------------------
(* SpecEngine: the position builder, the metrics calculator and the         *)
(* portfolio aggregator applied to every drawn record list and price map     *)

InitEngine ==
    /\ phase = "input"
    /\ inReserves \in SeqsUpTo(RawRecords, MaxReserves)
    /\ inPrices \in PriceMaps
    /\ outLoans = <<>>
    /\ outMetrics = <<>>
    /\ outPortfolio = NoPortfolio
    /\ inLoan = NoLoan
    /\ outComputed = NotComputed
    /\ AppIdle

\* const loans = buildLoanPositions(reserves, prices)
Build ==
    /\ phase = "input"
    /\ outLoans' = buildLoanPositions(inReserves, inPrices)
    /\ phase' = "built"
    /\ UNCHANGED <<inReserves, inPrices, outMetrics, outPortfolio, inLoan, outComputed, appVars>>

\* the portfolio memo: metrics of every loan and their rollup
Rollup ==
    /\ phase = "built"
    /\ outMetrics' = [i \in 1..Len(outLoans) |-> computeLoanMetrics(outLoans[i])]
    /\ outPortfolio' = portfolioOf(outLoans)
    /\ phase' = "done"
    /\ UNCHANGED <<inReserves, inPrices, outLoans, inLoan, outComputed, appVars>>

NextEngine == Build \/ Rollup

SpecEngine == InitEngine /\ [][NextEngine]_vars

----------------------------------------------------------------------------
(* SpecMetrics: computeLoanMetrics applied to every directly constructed    *)
(* LoanPosition and to "no selection"                                        *)

InitMetrics ==
    /\ phase = "input"
    /\ inLoan \in ArbitraryLoans \cup {NoLoan}
    /\ outComputed = NotComputed
    /\ inReserves = <<>>
    /\ inPrices = <<>>
    /\ outLoans = <<>>
    /\ outMetrics = <<>>
    /\ outPortfolio = NoPortfolio
    /\ AppIdle

\* const computed = computeLoanMetrics(selectedLoan)
Compute ==
    /\ phase = "input"
    /\ outComputed' = computeLoanMetrics(inLoan)
    /\ phase' = "done"
    /\ UNCHANGED <<inReserves, inPrices, outLoans, outMetrics, outPortfolio, inLoan, appVars>>

NextMetrics == Compute

SpecMetrics == InitMetrics /\ [][NextMetrics]_vars

----------------------------------------------------------------------------
(* Spec: the App component.  Every handler, effect and promise continuation  *)
(* is one action: React commits the state updates of an event before the     *)
(* next event is handled.                                                    *)

getWalletFromQueryString(params) ==
    IF "wallet" \in DOMAIN params THEN params.wallet
    ELSE IF "address" \in DOMAIN params THEN params.address
    ELSE IF "walletAddress" \in DOMAIN params THEN params.walletAddress
    ELSE ""

\* new Date(updatedAt).toISOString(), for updatedAt in 0..9
toISOString(updatedAt) == "1970-01-01T00:00:00.00" \o ToString(updatedAt) \o "Z"

\* xs without its element number c
RemoveAt(xs, c) == SubSeq(xs, 1, c - 1) \o SubSeq(xs, c + 1, Len(xs))

\* setSelectedLoanId's updater always taking the first loan of the new list
nextSelectedLoanId_alwaysFirst(previousLoanId, loans) ==
    IF Len(loans) > 0 THEN loans[1].id ELSE ""

\* the id setSelectedLoanId's updater returns
nextSelectedLoanId(previousLoanId, loans) ==
    IF \E i \in 1..Len(loans) : loans[i].id = previousLoanId THEN previousLoanId
    ELSE IF Len(loans) > 0 THEN loans[1].id ELSE ""

\* the selectedLoan memo
selectedLoan ==
    IF result = NoResult \/ Len(result.loans) = 0 THEN NoLoan
    ELSE IF \E i \in 1..Len(result.loans) : result.loans[i].id = selectedLoanId
    THEN result.loans[CHOOSE i \in 1..Len(result.loans) :
                          /\ result.loans[i].id = selectedLoanId
                          /\ \A j \in 1..(i - 1) : result.loans[j].id # selectedLoanId]
    ELSE result.loans[1]

InitApp ==
    /\ EngineIdle
    /\ search \in Searches
    /\ hasGraphApiKey \in BOOLEAN
    /\ wallet = getWalletFromQueryString(search)
    /\ selectedLoanId = ""
    /\ isLoading = FALSE
    /\ error = ""
    /\ result = NoResult
    /\ now = 0
    /\ hasAutoFetchedFromQuery = FALSE
    /\ effectRuns = 0
    /\ started = 0
    /\ calls = <<>>

\* fetchLoans up to its first await without setError('')
fetchLoansStart_keepError(normalizedWallet) ==
    /\ started < MaxFetches
    /\ UNCHANGED error
    /\ isLoading' = TRUE
    /\ started' = started + 1
    /\ calls' = Append(calls,
           [normalizedWallet |-> normalizedWallet,
            awaiting |-> "subgraph",
            markets |-> [i \in 1..Len(AAVE_MARKETS) |->
                            marketStart(AAVE_MARKETS[i], hasGraphApiKey)],
            reserves |-> <<>>])

\* fetchLoans up to its first await: the error is cleared, isLoading is set
\* and every market's callback has issued its first request
fetchLoansStart(normalizedWallet) ==
    /\ started < MaxFetches
    /\ error' = ""
    /\ isLoading' = TRUE
    /\ started' = started + 1
    /\ calls' = Append(calls,
           [normalizedWallet |-> normalizedWallet,
            awaiting |-> "subgraph",
            markets |-> [i \in 1..Len(AAVE_MARKETS) |->
                            marketStart(AAVE_MARKETS[i], hasGraphApiKey)],
            reserves |-> <<>>])

\* fetchLoans from buildLoanPositions to the end of its try block, with
\* setIsLoading(false) left to the catch block
fetchLoansSucceed_noFinally(c, reserves, prices) ==
    LET loans == buildLoanPositions(reserves, prices)
        updatedAt == started
    IN  /\ now' = updatedAt
        /\ result' = [wallet |-> calls[c].normalizedWallet,
                      loans |-> loans,
                      lastUpdated |-> toISOString(updatedAt)]
        /\ selectedLoanId' = nextSelectedLoanId(selectedLoanId, loans)
        /\ calls' = RemoveAt(calls, c)
        /\ UNCHANGED <<error, isLoading>>

\* fetchLoans from buildLoanPositions to the end of its try block, and finally
fetchLoansSucceed(c, reserves, prices) ==
    LET loans == buildLoanPositions(reserves, prices)
        updatedAt == started
    IN  /\ now' = updatedAt
        /\ result' = [wallet |-> calls[c].normalizedWallet,
                      loans |-> loans,
                      lastUpdated |-> toISOString(updatedAt)]
        /\ selectedLoanId' = nextSelectedLoanId(selectedLoanId, loans)
        /\ isLoading' = FALSE
        /\ calls' = RemoveAt(calls, c)
        /\ UNCHANGED error

\* the catch block of fetchLoans without setResult(null), and finally
fetchLoansFail_keepResult(c, message) ==
    /\ error' = message
    /\ isLoading' = FALSE
    /\ calls' = RemoveAt(calls, c)
    /\ UNCHANGED <<result, now, selectedLoanId>>

\* the catch block of fetchLoans, and finally
fetchLoansFail(c, message) ==
    /\ error' = message
    /\ result' = NoResult
    /\ isLoading' = FALSE
    /\ calls' = RemoveAt(calls, c)
    /\ UNCHANGED <<now, selectedLoanId>>

\* the mount effect without the hasAutoFetchedFromQuery guard
MountEffect_everyRun ==
    /\ effectRuns < MaxEffectRuns
    /\ effectRuns' = effectRuns + 1
    /\ LET walletFromQuery == Trim(getWalletFromQueryString(search))
       IN  IF ~IsEthereumAddress(walletFromQuery)
           THEN UNCHANGED <<hasAutoFetchedFromQuery, error, isLoading, started, calls>>
           ELSE /\ hasAutoFetchedFromQuery' = TRUE
                /\ fetchLoansStart(walletFromQuery)
    /\ UNCHANGED <<engineVars, search, hasGraphApiKey, wallet, selectedLoanId, result, now>>

\* the mount effect
MountEffect ==
    /\ effectRuns < MaxEffectRuns
    /\ effectRuns' = effectRuns + 1
    /\ LET walletFromQuery == Trim(getWalletFromQueryString(search))
       IN  IF hasAutoFetchedFromQuery \/ ~IsEthereumAddress(walletFromQuery)
           THEN UNCHANGED <<hasAutoFetchedFromQuery, error, isLoading, started, calls>>
           ELSE /\ hasAutoFetchedFromQuery' = TRUE
                /\ fetchLoansStart(walletFromQuery)
    /\ UNCHANGED <<engineVars, search, hasGraphApiKey, wallet, selectedLoanId, result, now>>

\* onChange of the wallet input
ChangeWallet ==
    /\ effectRuns > 0
    /\ \E text \in WalletInputs : wallet' = text
    /\ UNCHANGED <<engineVars, search, hasGraphApiKey, selectedLoanId, isLoading, error,
                   result, now, hasAutoFetchedFromQuery, effectRuns, started, calls>>

\* what handleFetch and handleRefresh do with the wallet they settled on
fetchOrReject(normalizedWallet) ==
    IF ~IsEthereumAddress(normalizedWallet)
    THEN /\ error' = "Please enter a valid Ethereum wallet address."
         /\ result' = NoResult
         /\ UNCHANGED <<isLoading, started, calls>>
    ELSE /\ fetchLoansStart(normalizedWallet)
         /\ UNCHANGED result

\* submitting the form; the submit button is disabled while isLoading
HandleFetch ==
    /\ effectRuns > 0
    /\ ~isLoading
    /\ fetchOrReject(Trim(wallet))
    /\ UNCHANGED <<engineVars, search, hasGraphApiKey, wallet, selectedLoanId, now,
                   hasAutoFetchedFromQuery, effectRuns>>

\* a click on Refresh; the button is disabled while isLoading
HandleRefresh ==
    /\ effectRuns > 0
    /\ ~isLoading
    /\ fetchOrReject(IF result # NoResult THEN result.wallet ELSE Trim(wallet))
    /\ UNCHANGED <<engineVars, search, hasGraphApiKey, wallet, selectedLoanId, now,
                   hasAutoFetchedFromQuery, effectRuns>>

\* a tick of the refresh interval without the isLoading test
RefreshTick_noSkip ==
    /\ result # NoResult
    /\ result.wallet # ""
    /\ fetchLoansStart(result.wallet)
    /\ UNCHANGED <<engineVars, search, hasGraphApiKey, wallet, selectedLoanId, result,
                   now, hasAutoFetchedFromQuery, effectRuns>>

\* a tick of the refresh interval, armed while result.wallet is set
RefreshTick ==
    /\ result # NoResult
    /\ result.wallet # ""
    /\ IF isLoading
       THEN UNCHANGED <<error, isLoading, started, calls>>
       ELSE fetchLoansStart(result.wallet)
    /\ UNCHANGED <<engineVars, search, hasGraphApiKey, wallet, selectedLoanId, result,
                   now, hasAutoFetchedFromQuery, effectRuns>>

\* a click on a loan tab
SelectLoan ==
    /\ result # NoResult
    /\ \E i \in 1..Len(result.loans) : selectedLoanId' = result.loans[i].id
    /\ UNCHANGED <<engineVars, search, hasGraphApiKey, wallet, isLoading, error, result,
                   now, hasAutoFetchedFromQuery, effectRuns, started, calls>>

\* the endpoint a market is waiting for answers; when that settles the last
\* market, fetchFromAaveSubgraph settles and fetchLoans runs on, to its end
\* or to the price request
EndpointResponds ==
    \E c \in 1..Len(calls), i \in 1..Len(AAVE_MARKETS) :
      \E outcome \in EndpointOutcomes(i) :
        /\ calls[c].awaiting = "subgraph"
        /\ ~calls[c].markets[i].settled
        /\ LET markets == [calls[c].markets EXCEPT
                              ![i] = marketStep(AAVE_MARKETS[i], hasGraphApiKey, @, outcome)]
               settled == subgraphOutcome(markets, hasGraphApiKey)
               reserveSymbols == {settled.reserves[k].reserve.symbol :
                                     k \in 1..Len(settled.reserves)}
           IN  IF \E j \in 1..Len(markets) : ~markets[j].settled
               THEN /\ calls' = [calls EXCEPT ![c].markets = markets]
                    /\ UNCHANGED <<selectedLoanId, isLoading, error, result, now>>
               ELSE IF ~settled.ok
               THEN fetchLoansFail(c, settled.message)
               ELSE IF priceIds(reserveSymbols) = {}
               THEN fetchLoansSucceed(c, settled.reserves, <<>>)
               ELSE /\ calls' = [calls EXCEPT ![c].markets = markets,
                                              ![c].awaiting = "prices",
                                              ![c].reserves = settled.reserves]
                    /\ UNCHANGED <<selectedLoanId, isLoading, error, result, now>>
        /\ UNCHANGED <<engineVars, search, hasGraphApiKey, wallet,
                       hasAutoFetchedFromQuery, effectRuns, started>>

\* the price request answers and fetchLoans runs to its end
PricesRespond ==
    \E c \in 1..Len(calls), answer \in PriceAnswers :
        /\ calls[c].awaiting = "prices"
        /\ fetchLoansSucceed(c, calls[c].reserves, pricesFromAnswer(answer))
        /\ UNCHANGED <<engineVars, search, hasGraphApiKey, wallet,
                       hasAutoFetchedFromQuery, effectRuns, started>>

Next ==
    \/ MountEffect
    \/ ChangeWallet
    \/ HandleFetch
    \/ HandleRefresh
    \/ RefreshTick
    \/ SelectLoan
    \/ EndpointResponds
    \/ PricesRespond

Spec == InitApp /\ [][Next]_vars

\* what EndpointResponds does to calls: the answer advances the market's
\* endpoint loop, and when it settles the last market the call ends or goes
\* on to the price request
EndpointAnswered ==
    \E c \in 1..Len(calls), i \in 1..Len(AAVE_MARKETS) :
      \E outcome \in EndpointOutcomes(i) :
        /\ calls[c].awaiting = "subgraph"
        /\ ~calls[c].markets[i].settled
        /\ LET markets == [calls[c].markets EXCEPT
                              ![i] = marketStep(AAVE_MARKETS[i], hasGraphApiKey, @, outcome)]
               settled == subgraphOutcome(markets, hasGraphApiKey)
               reserveSymbols == {settled.reserves[k].reserve.symbol :
                                     k \in 1..Len(settled.reserves)}
           IN  calls' =
                   IF \E j \in 1..Len(markets) : ~markets[j].settled
                   THEN [calls EXCEPT ![c].markets = markets]
                   ELSE IF ~settled.ok \/ priceIds(reserveSymbols) = {}
                   THEN RemoveAt(calls, c)
                   ELSE [calls EXCEPT ![c].markets = markets,
                                      ![c].awaiting = "prices",
                                      ![c].reserves = settled.reserves]

\* what PricesRespond does to calls: the call ends
PricesAnswered ==
    \E c \in 1..Len(calls) :
        /\ calls[c].awaiting = "prices"
        /\ calls' = RemoveAt(calls, c)

\* Spec with every HTTP request answered in the end: a request in flight to a
\* subgraph endpoint or to CoinGecko eventually resolves or rejects, and the
\* code waiting for it runs on.  Every answer changes calls, so fairness is
\* stated on what EndpointResponds and PricesRespond do to calls.
SpecFair ==
    /\ Spec
    /\ WF_calls(EndpointAnswered)
    /\ WF_calls(PricesAnswered)

----------------------------------------------------------------------------
(* Properties *)

\* the numeric fields of Computed
NumericFields ==
    {"units", "px", "debt", "collateralUSD", "equity", "ltv", "leverage",
     "healthFactor", "liqPrice", "collateralUSDAtLiq", "ltvAtLiq",
     "priceDropToLiq", "supplyEarnUSD", "borrowCostUSD", "deployEarnUSD",
     "netEarnUSD", "netAPYOnEquity", "maxBorrowByLTV", "borrowHeadroom",
     "borrowPowerUsed", "equityMoveFor10Pct", "collateralBufferUSD",
     "ltvMax", "lt", "rSupply", "rBorrow", "rDeploy"}

RECURSIVE SumOver(_, _)
\* the sum of f[i] over the indices i in S
SumOver(f, S) ==
    IF S = {} THEN Zero
    ELSE LET i == CHOOSE j \in S : TRUE IN Add(f[i], SumOver(f, S \ {i}))

LoanIndices == DOMAIN outLoans

\* C1: a fetchLoans call that completes has either replaced result by a
\* complete new snapshot (the call's wallet, a loan list, the timestamp of the
\* completion) or left result as it was and set the error; a failing call
\* never changes or clears a stored snapshot.
Cex_C1 ==
    [][ Len(calls') < Len(calls) =>
            \/ /\ result' # NoResult
               /\ result'.wallet = calls[1].normalizedWallet
               /\ "loans" \in DOMAIN result'
               /\ result'.lastUpdated = toISOString(now')
            \/ /\ result' = result
               /\ error' # "" ]_vars

\* healthFactor is +Infinity if and only if debt = 0, and finite and >= 0
\* otherwise
HealthFactorByDebt ==
    LET debt == inLoan.totalBorrowedUsd
        hf == outComputed.healthFactor
    IN  /\ (hf = Infinity) <=> (debt = Zero)
        /\ debt # Zero => IsFinite(hf) /\ Ge(hf, Zero)

\* x is finite and >= 0
FiniteNonNegative(x) == IsFinite(x) /\ Ge(x, Zero)

\* the totals of inLoan and the usdValue and liqThreshold of its collateral
\* assets are finite and >= 0, as in every LoanPosition that
\* buildLoanPositions builds from finite non-negative prices
OrdinaryLoan ==
    /\ FiniteNonNegative(inLoan.totalBorrowedUsd)
    /\ FiniteNonNegative(inLoan.totalSuppliedUsd)
    /\ \A i \in 1..Len(inLoan.supplied) :
           /\ FiniteNonNegative(inLoan.supplied[i].usdValue)
           /\ FiniteNonNegative(inLoan.supplied[i].liqThreshold)

\* C2 as stated: for every LoanPosition passed to computeLoanMetrics,
\* healthFactor is +Infinity if and only if debt (totalBorrowedUsd) is 0, and
\* finite and >= 0 otherwise.
Cex_C2 == (phase = "done" /\ inLoan # NoLoan) => HealthFactorByDebt

\* C2 as amended: for every LoanPosition whose totals and whose collateral
\* assets' usdValue and liqThreshold are finite and >= 0, healthFactor is
\* +Infinity if and only if debt is 0, and finite and >= 0 otherwise.
Thm_C2 == (phase = "done" /\ inLoan # NoLoan /\ OrdinaryLoan) => HealthFactorByDebt

\* a debt-free loan over one collateral asset worth 2 with lt = 33/40 has
\* healthFactor +Infinity
Wit_C2 ==
    /\ phase = "done"
    /\ inLoan # NoLoan
    /\ OrdinaryLoan
    /\ inLoan.totalBorrowedUsd = Zero
    /\ inLoan.totalSuppliedUsd = I(2)
    /\ Len(inLoan.supplied) = 1
    /\ outComputed.lt = Q(33, 40)
    /\ outComputed.healthFactor = Infinity

\* C3: computeLoanMetrics returns NaN in no field of Computed, for every
\* LoanPosition with finite or infinite numeric fields and for no selection.
Cex_C3 ==
    phase = "done" => \A f \in NumericFields : ~IsNaN(outComputed[f])

\* C4 as stated: a loan with debt = 0 and collateralUSD > 0 has leverage =
\* +Infinity, borrowCostUSD = 0, deployEarnUSD = 0 and netEarnUSD = supplyEarnUSD.
Cex_C4 ==
    phase = "done" =>
        \A i \in LoanIndices :
            LET m == outMetrics[i]
            IN  (m.debt = Zero /\ Gt(m.collateralUSD, Zero)) =>
                    /\ m.leverage = Infinity
                    /\ m.borrowCostUSD = Zero
                    /\ m.deployEarnUSD = Zero
                    /\ m.netEarnUSD = m.supplyEarnUSD

\* C4 as amended: a loan with debt = 0 and collateralUSD > 0 has leverage = 1
\* (collateralUSD / equity with equity = collateralUSD), borrowCostUSD = 0,
\* deployEarnUSD = 0 and netEarnUSD = supplyEarnUSD.
Thm_C4 ==
    phase = "done" =>
        \A i \in LoanIndices :
            LET m == outMetrics[i]
            IN  (m.debt = Zero /\ Gt(m.collateralUSD, Zero)) =>
                    /\ m.leverage = I(1)
                    /\ m.borrowCostUSD = Zero
                    /\ m.deployEarnUSD = Zero
                    /\ m.netEarnUSD = m.supplyEarnUSD

\* a debt-free loan over collateral that earns a positive supply yield, whose
\* borrowed asset has a positive borrow rate
Wit_C4 ==
    /\ phase = "done"
    /\ \E i \in LoanIndices :
        /\ outMetrics[i].debt = Zero
        /\ Gt(outMetrics[i].collateralUSD, Zero)
        /\ Gt(outMetrics[i].supplyEarnUSD, Zero)
        /\ Gt(outLoans[i].borrowed.amount, Zero)

\* the selectors computeLoanMetrics passes, with the field that holds the result
SelectorResult ==
    [maxLTV |-> "ltvMax", liqThreshold |-> "lt", supplyRate |-> "rSupply"]

\* average lies within [min, max] of the selector values of items
WithinSelectorRange(items, valueSelector, average) ==
    /\ \E i \in 1..Len(items) : Le(items[i][valueSelector], average)
    /\ \E i \in 1..Len(items) : Le(average, items[i][valueSelector])

\* C5 as stated: for every asset list and selector, weightedAverage is 0 when
\* the usdValue sum is <= 0 and otherwise lies within [min, max] of the
\* selector values.
Cex_C5 ==
    (phase = "done" /\ inLoan # NoLoan) =>
        \A sel \in DOMAIN SelectorResult :
            LET items == inLoan.supplied
                average == outComputed[SelectorResult[sel]]
            IN  IF Le(SumSeq(usdValues(items)), Zero)
                THEN average = Zero
                ELSE WithinSelectorRange(items, sel, average)

\* C5 as amended: weightedAverage is 0 when the usdValue sum is <= 0; otherwise,
\* when every usdValue is finite and >= 0 and every selector value is finite,
\* it lies within [min, max] of the selector values.
Thm_C5 ==
    (phase = "done" /\ inLoan # NoLoan) =>
        \A sel \in DOMAIN SelectorResult :
            LET items == inLoan.supplied
                average == outComputed[SelectorResult[sel]]
            IN  IF Le(SumSeq(usdValues(items)), Zero)
                THEN average = Zero
                ELSE (\A i \in 1..Len(items) :
                          /\ IsFinite(items[i].usdValue)
                          /\ Ge(items[i].usdValue, Zero)
                          /\ IsFinite(items[i][sel]))
                     => WithinSelectorRange(items, sel, average)

\* two assets of different positive weight and different thresholds, whose
\* weighted liqThreshold lies strictly between the two
Wit_C5 ==
    /\ phase = "done"
    /\ inLoan # NoLoan
    /\ Len(inLoan.supplied) = 2
    /\ inLoan.supplied[1].usdValue = I(1)
    /\ inLoan.supplied[2].usdValue = I(2)
    /\ Lt(inLoan.supplied[1].liqThreshold, outComputed.lt)
    /\ Lt(outComputed.lt, inLoan.supplied[2].liqThreshold)

\* the parsed debt amount of a raw record is > 0
PositiveDebt(r) == Gt(parseBalance(r.currentTotalDebt, r.reserve.decimals), Zero)

\* the parsed deposit amount of a raw record is > 0
PositiveDeposit(r) == Gt(parseBalance(r.currentATokenBalance, r.reserve.decimals), Zero)

RecordIndices == DOMAIN inReserves

MarketSet == {MarketNames[i] : i \in DOMAIN MarketNames}

\* no two raw records of one market name the same underlying asset
DistinctAssets ==
    \A i, j \in RecordIndices :
        (/\ i # j
         /\ inReserves[i].marketName = inReserves[j].marketName)
        => ToLowerCase(inReserves[i].reserve.underlyingAsset)
               # ToLowerCase(inReserves[j].reserve.underlyingAsset)

\* no two LoanPositions share both marketName and borrowed.address
OnePerMarketAsset ==
    \A i, j \in LoanIndices :
        (/\ outLoans[i].marketName = outLoans[j].marketName
         /\ outLoans[i].borrowed.address = outLoans[j].borrowed.address)
        => i = j

\* C6 as stated: for any raw record set, no two LoanPositions share both
\* marketName and borrowed.address, also when a market's records contain the
\* same underlying asset more than once.
Cex_C6 == phase # "input" => OnePerMarketAsset

\* C6 as amended: when no two raw records of one market name the same
\* underlying asset, no two LoanPositions share both marketName and
\* borrowed.address (a market's record list that repeats an asset with
\* positive debt yields one LoanPosition per record).
Thm_C6 == (phase # "input" /\ DistinctAssets) => OnePerMarketAsset

\* two loans of one market on different assets and a loan of the other market
\* on one of these assets
Wit_C6 ==
    /\ phase # "input"
    /\ DistinctAssets
    /\ \E i, j, k \in LoanIndices :
        /\ outLoans[i].marketName = outLoans[j].marketName
        /\ outLoans[i].borrowed.address # outLoans[j].borrowed.address
        /\ outLoans[k].marketName # outLoans[i].marketName
        /\ outLoans[k].borrowed.address = outLoans[i].borrowed.address

\* C7: within one returned list, no two LoanPositions have the same id.
Thm_C7 ==
    phase # "input" =>
        \A i, j \in LoanIndices : outLoans[i].id = outLoans[j].id => i = j

\* two loans of one market on the same borrowed asset, told apart by the index
Wit_C7 ==
    /\ phase # "input"
    /\ \E i, j \in LoanIndices :
        /\ i # j
        /\ outLoans[i].marketName = outLoans[j].marketName
        /\ outLoans[i].borrowed.address = outLoans[j].borrowed.address
        /\ outLoans[i].id = "proto_mainnet_v3-0xbb-0"
        /\ outLoans[j].id = "proto_mainnet_v3-0xbb-1"

LoansOfMarket(m) == {i \in LoanIndices : outLoans[i].marketName = m}

DebtRecordsOfMarket(m) ==
    {i \in RecordIndices : inReserves[i].marketName = m /\ PositiveDebt(inReserves[i])}

\* C8: the number of LoanPositions of a market equals the number of its
\* records whose parsed debt amount is > 0; a market without such a record
\* gets none, and a record set without any yields the empty list.
Thm_C8 ==
    phase # "input" =>
        /\ \A m \in MarketSet :
               Cardinality(LoansOfMarket(m)) = Cardinality(DebtRecordsOfMarket(m))
        /\ (\A i \in RecordIndices : ~PositiveDebt(inReserves[i])) => outLoans = <<>>

\* a market with a deposit and no debt gets no loan while the other market,
\* with debt, gets one
Wit_C8 ==
    /\ phase # "input"
    /\ \E m \in MarketSet :
        /\ \E i \in RecordIndices :
               inReserves[i].marketName = m /\ PositiveDeposit(inReserves[i])
        /\ DebtRecordsOfMarket(m) = {}
        /\ LoansOfMarket(m) = {}
    /\ Len(outLoans) = 1

\* C9: for no selection computeLoanMetrics returns a neutral record: debt = 0,
\* healthFactor = +Infinity, ltvMax = lt = rSupply = rBorrow = rDeploy = 0,
\* and every other numeric field is 0 or +Infinity.
Thm_C9 ==
    (phase = "done" /\ inLoan = NoLoan) =>
        /\ outComputed.debt = Zero
        /\ outComputed.healthFactor = Infinity
        /\ \A f \in {"ltvMax", "lt", "rSupply", "rBorrow", "rDeploy"} :
               outComputed[f] = Zero
        /\ \A f \in NumericFields : outComputed[f] \in {Zero, Infinity}
        /\ outComputed.alertHF = FALSE
        /\ outComputed.alertLTV = FALSE

\* computeLoanMetrics has returned for no selection
Wit_C9 ==
    /\ phase = "done"
    /\ inLoan = NoLoan
    /\ DOMAIN outComputed = NumericFields \cup {"alertHF", "alertLTV", "primaryCollateralSymbol"}

FiniteHealthLoans == {i \in LoanIndices : IsFinite(outMetrics[i].healthFactor)}

healthFactors == [i \in LoanIndices |-> outMetrics[i].healthFactor]

\* C10: for a non-empty loan list, averageHealthFactor times the number of
\* loans with a finite healthFactor equals the sum of their healthFactors, and
\* averageHealthFactor is +Infinity when no loan has a finite healthFactor.
Thm_C10 ==
    (phase = "done" /\ Len(outLoans) > 0) =>
        IF FiniteHealthLoans = {}
        THEN outPortfolio.averageHealthFactor = Infinity
        ELSE /\ IsFinite(outPortfolio.averageHealthFactor)
             /\ Mul(outPortfolio.averageHealthFactor, I(Cardinality(FiniteHealthLoans)))
                    = SumOver(healthFactors, FiniteHealthLoans)

\* one loan with healthFactor 33/20 and one debt-free loan: the average is 33/20
Wit_C10 ==
    /\ phase = "done"
    /\ Len(outLoans) = 2
    /\ \E i, j \in LoanIndices :
        /\ outMetrics[i].healthFactor = Q(33, 20)
        /\ outMetrics[j].healthFactor = Infinity
    /\ outPortfolio.averageHealthFactor = Q(33, 20)

\* ratio is numerator / denominator when denominator > 0 and 0 otherwise
GuardedQuotient(ratio, numerator, denominator) ==
    /\ IsFinite(ratio)
    /\ IF Gt(denominator, Zero)
       THEN Mul(ratio, denominator) = numerator
       ELSE ratio = Zero

maxBorrowsByLTV == [i \in LoanIndices |-> outMetrics[i].maxBorrowByLTV]

\* C11: for a non-empty loan list, averageSupplyApy, averageBorrowApy,
\* portfolioNetApy and borrowPowerUsed are the quotients of the portfolio
\* sums when the denominator is > 0 and 0 otherwise, and are finite.
Thm_C11 ==
    (phase = "done" /\ Len(outLoans) > 0) =>
        LET p == outPortfolio
        IN  /\ GuardedQuotient(p.averageSupplyApy, p.totalSupplyEarn, p.totalCollateral)
            /\ GuardedQuotient(p.averageBorrowApy, p.totalBorrowCost, p.totalDebt)
            /\ GuardedQuotient(p.portfolioNetApy, p.totalNetEarn, p.totalNetWorth)
            /\ GuardedQuotient(p.borrowPowerUsed, p.totalDebt,
                               SumOver(maxBorrowsByLTV, LoanIndices))

\* a portfolio whose debt has no price over collateral that earns:
\* averageBorrowApy is 0 by the guard, averageSupplyApy and portfolioNetApy
\* are positive quotients
Wit_C11 ==
    /\ phase = "done"
    /\ Len(outLoans) > 0
    /\ outPortfolio.totalDebt = Zero
    /\ outPortfolio.averageBorrowApy = Zero
    /\ Gt(outPortfolio.averageSupplyApy, Zero)
    /\ Gt(outPortfolio.portfolioNetApy, Zero)

\* the endpoint requests in flight or settled: <<call, market>> pairs
MarketRuns == {<<c, i>> : c \in DOMAIN calls, i \in DOMAIN AAVE_MARKETS}

GatewayPrefix == "https://gateway-arbitrum.network.thegraph.com/api/"

\* the labels a failed request to endpoint can leave in failures
FailureLabels(endpoint) ==
    {endpoint \o " (network)", endpoint \o " (500)", endpoint \o " (GraphQL error)"}

\* the candidate list of market i: the gateway first when a key is set, then
\* the fallback endpoints
Candidates(i) ==
    (IF hasGraphApiKey
     THEN <<GatewayPrefix \o "key/subgraphs/id/" \o AAVE_MARKETS[i].graphSubgraphId>>
     ELSE <<>>) \o AAVE_MARKETS[i].fallbackEndpoints

\* the requests of one market so far are the first k candidates in list
\* order, every one before the last has failed, and the market has settled
\* either cleanly on the last one requested or after all candidates failed
EndpointOrder(run) ==
    LET st == calls[run[1]].markets[run[2]]
        candidates == Candidates(run[2])
        k == Len(st.requested)
    IN  /\ k <= Len(candidates)
        /\ st.requested = SubSeq(candidates, 1, k)
        /\ Len(candidates) > 0 => k >= 1
        /\ ~st.settled =>
               /\ Len(st.failures) = k - 1
               /\ \A j \in 1..(k - 1) : st.failures[j] \in FailureLabels(candidates[j])
        /\ (st.settled /\ Len(candidates) > 0 /\ st.failures # <<>>) =>
               /\ k = Len(candidates)
               /\ Len(st.failures) = k
               /\ \A j \in 1..k : st.failures[j] \in FailureLabels(candidates[j])
               /\ st.reserves = <<>>

\* a step of a call that stays in flight requests at most the next candidate
\* of a market, only when the one before has just failed, and requests
\* nothing more for a market that has settled
EndpointStep(run) ==
    LET st == calls[run[1]].markets[run[2]]
        after == calls'[run[1]].markets[run[2]]
    IN  (Len(calls') = Len(calls)) =>
            /\ st.settled => after = st
            /\ after.requested # st.requested =>
                   /\ after.requested
                          = Append(st.requested, Candidates(run[2])[Len(st.requested) + 1])
                   /\ Len(after.failures) = Len(st.failures) + 1
                   /\ ~after.settled

\* C12: per market the candidate endpoints are requested one after the other
\* in list order (gateway first when a key is set), the next one only after
\* the one before failed (network, status or GraphQL error); the first clean
\* answer ends the market's attempts, and no endpoint is requested twice.
Thm_C12 ==
    /\ [](\A run \in MarketRuns : EndpointOrder(run))
    /\ [][\A run \in MarketRuns : EndpointStep(run)]_vars

\* with a key set, the gateway of proto_mainnet_v3 has failed and its
\* fallback endpoint has answered cleanly with records
Wit_C12 ==
    /\ hasGraphApiKey
    /\ Len(calls) = 1
    /\ calls[1].markets[1].settled
    /\ Len(calls[1].markets[1].requested) = 2
    /\ calls[1].markets[1].failures = <<>>
    /\ calls[1].markets[1].reserves # <<>>

\* const status = healthLabel(computed.healthFactor)
status == healthLabel(outComputed.healthFactor)

\* the label the bands of C13 give a finite positive health factor
BandOf(hf) ==
    IF Lt(hf, Q(11, 10)) THEN "Danger"
    ELSE IF Lt(hf, Q(3, 2)) THEN "Tight"
    ELSE IF Lt(hf, I(2)) THEN "OK"
    ELSE "Safe"

\* C13: healthLabel returns a label for every health factor: Invalid exactly
\* when it is <= 0 or not finite (+Infinity, -Infinity, NaN), and for a finite
\* positive one exactly the label of its band: Danger below 1.1, Tight below
\* 1.5, OK below 2, Safe from 2 on.
Thm_C13 ==
    phase = "done" =>
        LET hf == outComputed.healthFactor
        IN  /\ status.label \in {"Invalid", "Danger", "Tight", "OK", "Safe"}
            /\ status.label = "Invalid" <=> (~IsFinite(hf) \/ Le(hf, Zero))
            /\ (IsFinite(hf) /\ Gt(hf, Zero)) => status.label = BandOf(hf)

\* a NaN health factor has been labelled
Wit_C13 ==
    /\ phase = "done"
    /\ IsNaN(outComputed.healthFactor)
    /\ status.label = "Invalid"

\* the AssetPositions of the loans built: the borrowed one and the supplied ones
BuiltAssets ==
    {outLoans[i].borrowed : i \in LoanIndices}
        \cup UNION {{outLoans[i].supplied[j] : j \in DOMAIN outLoans[i].supplied} :
                       i \in LoanIndices}

\* 0 <= x <= 0.99
InUnitRange(x) == Ge(x, Zero) /\ Le(x, Q(99, 100))

\* maxLTV and liqThreshold in [0, 0.99], supplyRate and borrowRate >= 0
ParametersInRange(asset) ==
    /\ InUnitRange(asset.maxLTV)
    /\ InUnitRange(asset.liqThreshold)
    /\ IsFinite(asset.supplyRate) /\ Ge(asset.supplyRate, Zero)
    /\ IsFinite(asset.borrowRate) /\ Ge(asset.borrowRate, Zero)

\* every supplied asset of loan i has a finite usdValue >= 0
NonNegativeWeights(i) ==
    \A j \in DOMAIN outLoans[i].supplied :
        FiniteNonNegative(outLoans[i].supplied[j].usdValue)

\* C14 as stated: every AssetPosition built has maxLTV and liqThreshold in
\* [0, 0.99] and supplyRate and borrowRate >= 0, and ltvMax and lt of every
\* computed loan lie in [0, 0.99].
Cex_C14 ==
    phase = "done" =>
        /\ \A asset \in BuiltAssets : ParametersInRange(asset)
        /\ \A i \in LoanIndices :
               InUnitRange(outMetrics[i].ltvMax) /\ InUnitRange(outMetrics[i].lt)

\* C14 as amended: every AssetPosition built has maxLTV and liqThreshold in
\* [0, 0.99] and supplyRate and borrowRate >= 0, whatever the raw strings; and
\* ltvMax and lt of a computed loan lie in [0, 0.99] when the usdValue of each
\* of its supplied assets is finite and >= 0.
Thm_C14 ==
    phase = "done" =>
        /\ \A asset \in BuiltAssets : ParametersInRange(asset)
        /\ \A i \in LoanIndices :
               NonNegativeWeights(i) =>
                   InUnitRange(outMetrics[i].ltvMax) /\ InUnitRange(outMetrics[i].lt)

\* a loan is computed whose collateral holds the malformed reserve (LTV "abc",
\* threshold "12000", negative liquidity rate) next to a priced one
Wit_C14 ==
    /\ phase = "done"
    /\ \E i \in LoanIndices :
           /\ NonNegativeWeights(i)
           /\ Gt(outMetrics[i].lt, Zero)
           /\ \E j \in DOMAIN outLoans[i].supplied :
                  LET asset == outLoans[i].supplied[j]
                  IN  /\ asset.symbol = "XYZ"
                      /\ asset.maxLTV = Zero
                      /\ asset.liqThreshold = Q(99, 100)
                      /\ asset.supplyRate = Zero

\* the mapping has an entry for the asset's symbol
Priced(asset) == asset.symbol \in DOMAIN inPrices

\* the usdValues of the supplied assets of loan i that have a price
PricedSuppliedValues(i) ==
    usdValues(SelectSeq(outLoans[i].supplied, LAMBDA asset : Priced(asset)))

\* C15: every AssetPosition built has an uppercase symbol, usdPrice equal to
\* the mapping's entry for that symbol, or 0 when there is none, and usdValue =
\* amount * usdPrice; an asset without a price has usdValue 0, so that
\* totalSuppliedUsd is the sum over the priced collateral alone and
\* totalBorrowedUsd is 0 for an unpriced debt.
Thm_C15 ==
    phase = "done" =>
        /\ \A asset \in BuiltAssets :
               /\ asset.symbol = ToUpperCase(asset.symbol)
               /\ asset.usdPrice = (IF Priced(asset) THEN inPrices[asset.symbol] ELSE Zero)
               /\ asset.usdValue = Mul(asset.amount, asset.usdPrice)
               /\ ~Priced(asset) => asset.usdValue = Zero
        /\ \A i \in LoanIndices :
               /\ outLoans[i].totalSuppliedUsd = SumSeq(PricedSuppliedValues(i))
               /\ outLoans[i].totalBorrowedUsd = outLoans[i].borrowed.usdValue
               /\ ~Priced(outLoans[i].borrowed) => outLoans[i].totalBorrowedUsd = Zero

\* a record with the lower-case symbol "weth" has been priced as WETH, and a
\* loan holds priced collateral next to collateral without a price
Wit_C15 ==
    /\ phase = "done"
    /\ \E k \in DOMAIN inReserves :
           /\ inReserves[k].reserve.symbol = "weth"
           /\ PositiveDeposit(inReserves[k])
    /\ \E i \in LoanIndices :
           /\ Gt(outLoans[i].totalSuppliedUsd, Zero)
           /\ \E j \in DOMAIN outLoans[i].supplied :
                  /\ ~Priced(outLoans[i].supplied[j])
                  /\ Gt(outLoans[i].supplied[j].amount, Zero)
           /\ \E j \in DOMAIN outLoans[i].supplied :
                  /\ outLoans[i].supplied[j].symbol = "WETH"
                  /\ outLoans[i].supplied[j].amount = I(1)
                  /\ outLoans[i].supplied[j].usdValue = I(2)

\* the query-string wallet: the first present of wallet, address and
\* walletAddress, trimmed
QueryWallet ==
    Trim(IF "wallet" \in DOMAIN search THEN search.wallet
         ELSE IF "address" \in DOMAIN search THEN search.address
         ELSE IF "walletAddress" \in DOMAIN search THEN search.walletAddress
         ELSE "")

\* a run of the mount effect
MountRun == effectRuns' = effectRuns + 1

\* this step starts a fetchLoans call for the query-string wallet
AutoFetchStarts ==
    /\ Len(calls') = Len(calls) + 1
    /\ calls'[Len(calls')].normalizedWallet = QueryWallet
    /\ calls'[Len(calls')].awaiting = "subgraph"
    /\ isLoading'
    /\ hasAutoFetchedFromQuery'

\* C16: the first run of the mount effect starts a fetch exactly when the
\* query-string wallet (first present of wallet, address, walletAddress,
\* trimmed) is a valid Ethereum address; a later run starts one only if none
\* has been auto-started yet, so at most one fetch is ever auto-started.
Thm_C16 ==
    /\ [](effectRuns = 0 => ~hasAutoFetchedFromQuery)
    /\ [][ /\ hasAutoFetchedFromQuery => hasAutoFetchedFromQuery'
           /\ MountRun =>
                  IF ~hasAutoFetchedFromQuery /\ IsEthereumAddress(QueryWallet)
                  THEN AutoFetchStarts
                  ELSE /\ calls' = calls
                       /\ started' = started
                       /\ hasAutoFetchedFromQuery' = hasAutoFetchedFromQuery ]_vars

\* the mount effect has run twice for ?wallet=<padded valid address>, and one
\* fetch was started, for the trimmed address
Wit_C16 ==
    /\ effectRuns = 2
    /\ hasAutoFetchedFromQuery
    /\ "wallet" \in DOMAIN search
    /\ search.wallet = Wallet1Padded
    /\ started = 1
    /\ Len(calls) = 1
    /\ calls[1].normalizedWallet = Wallet1

\* the loans built whose collateral is worth nothing against a positive debt
UncollateralizedDebts ==
    {i \in LoanIndices : outMetrics[i].collateralUSD = Zero /\ Gt(outMetrics[i].debt, Zero)}

\* C17: a loan with collateralUSD = 0 and debt > 0 has ltv = 0 and
\* healthFactor = 0, not +Infinity, and its status label is Invalid.
Thm_C17 ==
    phase = "done" =>
        \A i \in UncollateralizedDebts :
            /\ outMetrics[i].ltv = Zero
            /\ outMetrics[i].healthFactor = Zero
            /\ healthLabel(outMetrics[i].healthFactor).label = "Invalid"

\* a loan with a positive debt has been computed whose collateral list is not
\* empty and sums to 0
Wit_C17 ==
    /\ phase = "done"
    /\ \E i \in UncollateralizedDebts :
           /\ outLoans[i].supplied # <<>>
           /\ outMetrics[i].healthFactor = Zero

\* the records of market m that are eligible collateral: parsed deposit > 0
\* and usageAsCollateralEnabledOnUser, in record order
EligibleRecords(m) ==
    SelectSeq(inReserves,
              LAMBDA r : /\ r.marketName = m
                         /\ PositiveDeposit(r)
                         /\ r.usageAsCollateralEnabledOnUser)

\* the AssetPositions of those records, priced by the mapping
EligibleCollateral(m) ==
    LET records == EligibleRecords(m)
    IN  [j \in 1..Len(records) |->
            toAssetPosition(records[j],
                parseBalance(records[j].currentATokenBalance, records[j].reserve.decimals),
                inPrices)]

\* C18: every LoanPosition built has borrowed.amount > 0; its supplied list is
\* exactly the collateral-enabled records of its own market with a parsed
\* deposit > 0, in record order (so the same for all loans of the market, and
\* without any record of another market); totalBorrowedUsd = borrowed.usdValue
\* and totalSuppliedUsd = the sum of usdValue over supplied.
Thm_C18 ==
    phase # "input" =>
        \A i \in LoanIndices :
            /\ Gt(outLoans[i].borrowed.amount, Zero)
            /\ outLoans[i].supplied = EligibleCollateral(outLoans[i].marketName)
            /\ \A k \in LoanIndices :
                   outLoans[k].marketName = outLoans[i].marketName =>
                       outLoans[k].supplied = outLoans[i].supplied
            /\ outLoans[i].totalBorrowedUsd = outLoans[i].borrowed.usdValue
            /\ outLoans[i].totalSuppliedUsd = SumSeq(usdValues(outLoans[i].supplied))

\* two loans of one market share a collateral list of one asset while the
\* other market has a collateral deposit of its own
Wit_C18 ==
    /\ phase # "input"
    /\ \E i, k \in LoanIndices :
           /\ i # k
           /\ outLoans[i].marketName = MarketNames[1]
           /\ outLoans[k].marketName = MarketNames[1]
           /\ Len(outLoans[i].supplied) = 1
    /\ EligibleRecords(MarketNames[2]) # <<>>

\* p is the first position of list that holds its largest usdValue
FirstLargest(list, p) ==
    /\ p \in DOMAIN list
    /\ \A j \in DOMAIN list : Le(list[j].usdValue, list[p].usdValue)
    /\ \A j \in 1..(p - 1) : Lt(list[j].usdValue, list[p].usdValue)

\* C19: units, px and primaryCollateralSymbol are those of the supplied asset
\* with the largest usdValue, the first one in the list when several tie; with
\* an empty supplied list units = 0, px = 0, liqPrice = +Infinity and
\* priceDropToLiq = 0.
Thm_C19 ==
    phase = "done" =>
        \A i \in LoanIndices :
            LET list == outLoans[i].supplied
                m == outMetrics[i]
            IN  IF list = <<>>
                THEN /\ m.units = Zero
                     /\ m.px = Zero
                     /\ m.liqPrice = Infinity
                     /\ m.priceDropToLiq = Zero
                ELSE \E p \in DOMAIN list :
                        /\ FirstLargest(list, p)
                        /\ m.units = list[p].amount
                        /\ m.px = list[p].usdPrice
                        /\ m.primaryCollateralSymbol = list[p].symbol

\* two supplied assets of different symbols tie for the largest usdValue and
\* the first of them is the primary collateral
Wit_C19 ==
    /\ phase = "done"
    /\ \E i \in LoanIndices :
           LET list == outLoans[i].supplied
           IN  /\ Len(list) = 2
               /\ list[1].usdValue = list[2].usdValue
               /\ list[1].symbol # list[2].symbol
               /\ Gt(list[1].usdValue, Zero)
               /\ outMetrics[i].primaryCollateralSymbol = list[1].symbol
               /\ outMetrics[i].units = list[1].amount

\* the loans built with debt > 0 and lt > 0
LiquidatableLoans ==
    {i \in LoanIndices : Gt(outMetrics[i].debt, Zero) /\ Gt(outMetrics[i].lt, Zero)}

\* C20: for a loan with debt > 0 and lt > 0, healthFactor = 1 exactly when
\* collateralUSD = collateralUSDAtLiq, and healthFactor >= 1 exactly when
\* collateralBufferUSD = collateralUSD - collateralUSDAtLiq is >= 0; for a
\* loan with lt = 0, collateralUSDAtLiq = +Infinity.
Thm_C20 ==
    phase = "done" =>
        /\ \A i \in LiquidatableLoans :
               LET m == outMetrics[i]
               IN  /\ m.healthFactor = I(1) <=> m.collateralUSD = m.collateralUSDAtLiq
                   /\ Ge(m.healthFactor, I(1)) <=> Ge(m.collateralBufferUSD, Zero)
                   /\ m.collateralBufferUSD = Sub(m.collateralUSD, m.collateralUSDAtLiq)
        /\ \A i \in LoanIndices :
               outMetrics[i].lt = Zero => outMetrics[i].collateralUSDAtLiq = Infinity

\* a loan sits exactly at healthFactor = 1, with a collateral buffer of 0
Wit_C20 ==
    /\ phase = "done"
    /\ \E i \in LiquidatableLoans :
           /\ outMetrics[i].healthFactor = I(1)
           /\ outMetrics[i].collateralBufferUSD = Zero
           /\ Gt(outMetrics[i].collateralUSD, Zero)
           /\ outMetrics[i].collateralUSDAtLiq = outMetrics[i].collateralUSD

\* the totalSuppliedUsd of inLoan is the sum of its supplied usdValues, as
\* buildLoanPositions computes it
TotalsAgree == inLoan.totalSuppliedUsd = SumSeq(usdValues(inLoan.supplied))

\* what C21 says of inLoan when the asset at position p is its primary collateral
LiqPriceHoldsOthers(p) ==
    LET m == outComputed
        primary == inLoan.supplied[p]
    IN  /\ (Gt(m.lt, Zero) /\ Gt(primary.amount, Zero)) =>
               Add(Mul(m.liqPrice, primary.amount), Sub(m.collateralUSD, primary.usdValue))
                   = Div(m.debt, m.lt)
        /\ (m.lt = Zero \/ ~Gt(primary.amount, Zero)) => m.liqPrice = Infinity
        /\ (Len(inLoan.supplied) = 1 /\ Gt(m.lt, Zero)) =>
               Mul(Mul(m.liqPrice, primary.amount), m.lt) = m.debt

\* C21: for a loan whose totals agree with its assets, liqPrice * primary.amount
\* + (collateralUSD - primary.usdValue) = debt / lt when lt > 0 and
\* primary.amount > 0; liqPrice = +Infinity when there is no primary with
\* amount > 0 or when lt = 0; and with a single collateral asset and lt > 0,
\* liqPrice * amount * lt = debt.
Cex_C21 ==
    (phase = "done" /\ inLoan # NoLoan /\ TotalsAgree) =>
        IF inLoan.supplied = <<>>
        THEN outComputed.liqPrice = Infinity
        ELSE \A p \in DOMAIN inLoan.supplied :
                 FirstLargest(inLoan.supplied, p) => LiqPriceHoldsOthers(p)

\* market i of the call in flight has returned a clean result
CleanMarket(i) == calls[1].markets[i].settled /\ calls[1].markets[i].failures = <<>>

\* market i of the call in flight has failed, or is waiting for its last endpoint
FailedOrLastTry(i) ==
    LET st == calls[1].markets[i]
    IN  IF st.settled
        THEN st.failures # <<>>
        ELSE Len(st.requested) = Len(Candidates(i))

\* the records of the markets of list that returned a clean result, tagged
\* with their market
CleanRecords(list) ==
    FlatSeq([i \in 1..Len(list) |->
                IF list[i].failures = <<>>
                THEN [j \in 1..Len(list[i].reserves) |->
                         withMarket(list[i].reserves[j], AAVE_MARKETS[i].marketName)]
                ELSE <<>>])

\* this step settles fetchFromAaveSubgraph for the call in flight
SubgraphSettles ==
    /\ Len(calls) = 1
    /\ calls[1].awaiting = "subgraph"
    /\ \/ calls' = <<>>
       \/ Len(calls') = 1 /\ calls'[1].awaiting = "prices"

\* C22: fetchFromAaveSubgraph throws only when every market has failed on all
\* of its endpoints (or has none); when at least one market returned a clean
\* result the refresh goes on with the records of the clean markets alone, and
\* no error is set.
Thm_C22 ==
    [][ SubgraphSettles =>
            /\ (calls' = <<>> /\ error' # "") =>
                   \A i \in DOMAIN AAVE_MARKETS : FailedOrLastTry(i)
            /\ (\E i \in DOMAIN AAVE_MARKETS : CleanMarket(i)) =>
                   /\ error' = ""
                   /\ calls' = <<>> => result' # NoResult
            /\ calls' # <<>> =>
                   /\ error' = ""
                   /\ \E i \in DOMAIN AAVE_MARKETS : calls'[1].markets[i].failures = <<>>
                   /\ calls'[1].reserves = CleanRecords(calls'[1].markets) ]_vars

\* proto_lido_v3 has failed on its only endpoint and the refresh goes on to
\* the price request with the records of proto_mainnet_v3 alone
Wit_C22 ==
    /\ hasGraphApiKey
    /\ Len(calls) = 1
    /\ calls[1].awaiting = "prices"
    /\ calls[1].markets[2].settled
    /\ Len(calls[1].markets[2].failures) = 1
    /\ calls[1].markets[1].failures = <<>>
    /\ calls[1].reserves # <<>>
    /\ \A k \in DOMAIN calls[1].reserves : calls[1].reserves[k].marketName = MarketNames[1]
    /\ error = ""

\* this step ends a fetchLoans call in its catch block
RefreshFails == Len(calls') < Len(calls) /\ error' # ""

\* this step ends a fetchLoans call at the end of its try block
RefreshSucceeds == Len(calls') < Len(calls) /\ error' = ""

\* the refresh interval is armed: the periodic effect found result.wallet set
TimerArmed == ENABLED RefreshTick

\* a tick that starts a refresh for the snapshot's wallet
TickStartsRefresh ==
    /\ RefreshTick
    /\ Len(calls') = Len(calls) + 1
    /\ calls'[Len(calls')].normalizedWallet = result.wallet

\* C23: a failed refresh leaves result = null, and while result is null the
\* refresh timer is not armed, so a snapshot (and with it the timer) comes
\* back only through a fetch that succeeds; while a snapshot is stored and
\* nothing is loading, a tick of the timer starts a refresh for the snapshot's
\* wallet.
Thm_C23 ==
    /\ [](result = NoResult => ~TimerArmed)
    /\ []((result # NoResult /\ ~isLoading /\ started < MaxFetches) =>
              ENABLED TickStartsRefresh)
    /\ [][ /\ RefreshFails => (result' = NoResult /\ ~TimerArmed')
           /\ (result = NoResult /\ result' # NoResult) => RefreshSucceeds
           /\ (result = NoResult /\ Len(calls') > Len(calls)) =>
                  (MountEffect \/ HandleFetch \/ HandleRefresh) ]_vars

\* the second fetch of the session has failed in fetchFromAaveSubgraph: no
\* snapshot is stored and the timer is not armed
Wit_C23 ==
    /\ started = 2
    /\ calls = <<>>
    /\ result = NoResult
    /\ error # ""
    /\ error # "Please enter a valid Ethereum wallet address."
    /\ ~isLoading
    /\ ~TimerArmed

FetchStarts == Len(calls') > Len(calls)

\* this step is a submit or a click on Refresh that rejects the wallet
InvalidWalletInput ==
    /\ HandleFetch \/ HandleRefresh
    /\ ~FetchStarts

\* this step ends a fetchLoans call and leaves a snapshot stored
SnapshotStored == Len(calls') < Len(calls) /\ result' # NoResult

HasLoan(snapshot, id) == \E i \in 1..Len(snapshot.loans) : snapshot.loans[i].id = id

\* C26: the selected loan is null exactly when no snapshot is stored or its
\* list is empty, and otherwise a member of the stored snapshot's list; when
\* a fetch stores a snapshot with at least one loan, the previously selected
\* id is kept if and only if the new list has a loan with that id, and
\* otherwise the first loan of the new list is selected.
Thm_C26 ==
    /\ [](selectedLoan = NoLoan <=> (result = NoResult \/ result.loans = <<>>))
    /\ []((result # NoResult /\ result.loans # <<>>) =>
              /\ \E i \in 1..Len(result.loans) : selectedLoan = result.loans[i]
              /\ HasLoan(result, selectedLoanId)
              /\ selectedLoan.id = selectedLoanId)
    /\ [][ (SnapshotStored /\ result'.loans # <<>>) =>
               /\ selectedLoanId' = selectedLoanId <=> HasLoan(result', selectedLoanId)
               /\ ~HasLoan(result', selectedLoanId) =>
                      /\ selectedLoanId' = result'.loans[1].id
                      /\ selectedLoan' = result'.loans[1] ]_vars

\* the second fetch has stored a snapshot of two loans and the second loan of
\* its list is the selected one
Wit_C26 ==
    /\ now = 2
    /\ calls = <<>>
    /\ result # NoResult
    /\ Len(result.loans) = 2
    /\ selectedLoanId = result.loans[2].id
    /\ selectedLoan = result.loans[2]

\* this step is the price request of a call failing, by a network error or a
\* non-success status, and fetchLoans running on with what fetchUsdPrices
\* returned
PriceFetchFails ==
    \E c \in 1..Len(calls), answer \in PriceAnswers :
        /\ calls[c].awaiting = "prices"
        /\ answer.kind # "payload"
        /\ fetchLoansSucceed(c, calls[c].reserves, pricesFromAnswer(answer))

\* this step settles fetchFromAaveSubgraph with records none of whose symbols
\* has a CoinGecko id: fetchUsdPrices returns without a request
NoKnownSymbol ==
    \E c \in 1..Len(calls) :
        /\ calls[c].awaiting = "subgraph"
        /\ calls' = RemoveAt(calls, c)
        /\ result' # NoResult

\* every loan of the snapshot is valued at a price of 0
Unpriced(snapshot) ==
    \A i \in 1..Len(snapshot.loans) :
        LET loan == snapshot.loans[i]
            m == computeLoanMetrics(loan)
        IN  /\ loan.borrowed.usdPrice = Zero
            /\ \A k \in 1..Len(loan.supplied) : loan.supplied[k].usdPrice = Zero
            /\ m.debt = Zero
            /\ m.collateralUSD = Zero
            /\ m.healthFactor = Infinity

\* C27: a price fetch that fails (network error, non-success status, or no
\* symbol with a CoinGecko id) does not fail the refresh and shows no error:
\* the call ends, a snapshot is stored, and every loan in it has usdPrice = 0,
\* debt = 0, collateralUSD = 0 and healthFactor = +Infinity.
Thm_C27 ==
    [][ (PriceFetchFails \/ NoKnownSymbol) =>
            /\ Len(calls') < Len(calls)
            /\ ~isLoading'
            /\ error' = ""
            /\ result' # NoResult
            /\ Unpriced(result') ]_vars

\* a snapshot of two loans on known symbols was stored after the price
\* request failed: both loans are valued at 0 and no error is shown
Wit_C27 ==
    /\ calls = <<>>
    /\ error = ""
    /\ result # NoResult
    /\ Len(result.loans) = 2
    /\ result.loans[1].borrowed.symbol = "USDC"
    /\ Unpriced(result)

\* the markets that have a loan
MarketsWithLoans == {outLoans[i].marketName : i \in LoanIndices}

\* the USD value of the eligible collateral of market m
MarketCollateralUSD(m) == SumSeq(usdValues(EligibleCollateral(m)))

\* C28: the portfolio sums run over the loans: totalCollateral is the sum of
\* collateralUSD over all loans, that is, the collateral value of every market
\* times the number of loans of that market; and for a non-empty loan list
\* totalNetWorth = totalCollateral - totalDebt and totalNetEarn =
\* totalSupplyEarn + totalDeployEarn - totalBorrowCost. An empty list has no
\* portfolio.
Thm_C28 ==
    phase = "done" =>
        IF outLoans = <<>> THEN outPortfolio = NoPortfolio
        ELSE /\ outPortfolio.totalCollateral = SumSeq(field(outMetrics, "collateralUSD"))
             /\ outPortfolio.totalCollateral =
                    SumOver([m \in MarketsWithLoans |->
                                Mul(I(Cardinality(LoansOfMarket(m))), MarketCollateralUSD(m))],
                            MarketsWithLoans)
             /\ outPortfolio.totalNetWorth =
                    Sub(outPortfolio.totalCollateral, outPortfolio.totalDebt)
             /\ outPortfolio.totalNetEarn =
                    Sub(Add(outPortfolio.totalSupplyEarn, outPortfolio.totalDeployEarn),
                        outPortfolio.totalBorrowCost)

\* a market with collateral worth 2 USD has two loans and the other market
\* none: totalCollateral is 4 USD
Wit_C28 ==
    /\ phase = "done"
    /\ MarketsWithLoans = {MarketNames[1]}
    /\ Cardinality(LoansOfMarket(MarketNames[1])) = 2
    /\ MarketCollateralUSD(MarketNames[1]) = I(2)
    /\ outPortfolio.totalCollateral = I(4)
    /\ Gt(outPortfolio.totalDebt, Zero)

\* the loan computed on has debt >= 0, totalSuppliedUsd >= 0, and collateral
\* assets of usdValue >= 0 with liquidation thresholds in [0, 0.99]
NonNegativeLoan ==
    /\ inLoan # NoLoan
    /\ Ge(inLoan.totalBorrowedUsd, Zero)
    /\ Ge(inLoan.totalSuppliedUsd, Zero)
    /\ \A k \in 1..Len(inLoan.supplied) :
           /\ Ge(inLoan.supplied[k].usdValue, Zero)
           /\ InUnitRange(inLoan.supplied[k].liqThreshold)

\* C29: for a loan with non-negative debt and collateral values and
\* liquidation thresholds in [0, 0.99], alertLTV implies alertHF, and a debt
\* of 0 raises neither alert; the no-selection record raises neither alert.
Thm_C29 ==
    phase = "done" =>
        /\ NonNegativeLoan =>
               /\ outComputed.alertLTV => outComputed.alertHF
               /\ outComputed.debt = Zero =>
                      (~outComputed.alertHF /\ ~outComputed.alertLTV)
        /\ inLoan = NoLoan => (~outComputed.alertHF /\ ~outComputed.alertLTV)

\* debt 1.5 on collateral 2 at lt = 0.825: ltv = 0.75 is above 0.7 * lt and
\* healthFactor = 1.1 is below 1.5, so both alerts are raised
Wit_C29 ==
    /\ phase = "done"
    /\ NonNegativeLoan
    /\ outComputed.ltv = Q(3, 4)
    /\ outComputed.lt = Q(33, 40)
    /\ outComputed.healthFactor = Q(11, 10)
    /\ outComputed.alertLTV
    /\ outComputed.alertHF

=============================================================================
